---- MODULE Spec2Model ----
(***************************************************************************)
(* Model of the QR card reader repository.                                 *)
(*                                                                         *)
(*   SpecCam    : the camera-side hand tracker, the poker logic of main()  *)
(*                in live_qr_detector.py (distinct QR codes, flop / turn / *)
(*                river, key handling).                                    *)
(*   SpecReader : the PokerHandReader object of poker_hand_reader.py       *)
(*                (2-card window, accepted-card counter, serial link).     *)
(*   SpecValidate, SpecEncode : validate_card and card_to_list, each       *)
(*                applied to one input.                                    *)
(*   SpecLoop   : the control loop of main() in poker_hand_reader.py       *)
(*                (reconnect, inbound read, card input).                   *)
(***************************************************************************)
EXTENDS Integers, Sequences, FiniteSets, TLC

VARIABLES
    \* ---- live_qr_detector.py, main() ----
    cam_pc,            \* "frame": at the decoding of a frame, "key": at cv2.waitKey, "done": loop left
    detected_qrs,      \* the 'data' of the QR codes decoded in the current frame, in detection order
    previous_count,    \* len(unique_qr_codes) before the codes of the current frame were added
    unique_qr_codes,   \* the set of distinct codes, held as the sequence list(unique_qr_codes) yields
    flop_detected,
    flop_cards,
    turn_detected,
    turn_card,
    river_detected,
    river_card,
    key,               \* the key read by cv2.waitKey in the last iteration
    first_seen,        \* history: the distinct codes in the order of their first detection
    \* ---- poker_hand_reader.py, PokerHandReader ----
    current_cards,     \* self.current_cards
    card_count,        \* self.card_count
    serial,            \* self.serial: "None" or "port"
    ser,               \* the control loop's handle ser: "None" or "port"
    is_open,           \* is_open of the port object that ser or self.serial refers to
    wire,              \* history: the messages written to the port, in order
    attempts,          \* history: the hands add_card and store_hand handed to
                       \* send_hand_to_arduino, in order
    accepted,          \* history: the cards add_card accepted since the last reset, in order
    n_calls,           \* history: the number of calls and link events so far
    last_op,           \* history: the last method called and its argument
    last_ret,          \* history: the value the last method returned
    \* ---- validate_card applied to one raw string ----
    v_pc,              \* "idle", "input", "validated", "again"
    v_raw,             \* the raw input string, as the sequence of its characters
    v_card,            \* validate_card(v_raw)
    v_again,           \* validate_card(v_card)
    \* ---- card_to_list applied to one hand ----
    e_pc,              \* "idle", "input", "encoded"
    e_cards,           \* the two cards of the hand
    e_out,             \* card_to_list(e_cards[0]) + card_to_list(e_cards[1])
    \* ---- poker_hand_reader.py, main(): the control loop of normal mode ----
    loop_pc,           \* "idle", "start": before the initial connection attempt, "top", "poll",
                       \* "input": the three parts of an iteration, "exit": loop left
    now,               \* time.time(), in whole seconds
    last_serial_attempt,
    failed_handle,     \* history: a write or read on the port object opened last raised
                       \* OSError or SerialException
    io,                \* history: the link operation of the last step and its outcome
    last_open,         \* history: the last port-open attempt, if any, as a sequence of at
                       \* most one record: its time, whether it was forced, whether an
                       \* inbound read has failed since
    term,              \* the terminal: "cooked" as main() found it, "raw" after tty.setraw,
                       \* "restored" after termios.tcsetattr(fd, TCSADRAIN, old_settings)
    exit_reason,       \* "none", or how the loop was left: "quit", "interrupt", "error"
    leaked,            \* history: a port was opened that no variable refers to and that
                       \* nothing closed
    \* ---- poker_hand_reader.py, main(): the inbound poll and the handoff file ----
    p_pc,              \* "idle", "top", "poll", "input": the parts of an iteration
    p_open,            \* the port is connected
    inbox,             \* the lines buffered in the port (ser.in_waiting), oldest first,
                       \* each the sequence of its characters
    cards_file,        \* detected_cards.txt: whether it exists, can be read, and its lines
    p_step,            \* history: the kind of the last step
    arrived,           \* history: the lines the device sent, less those lost with a
                       \* failed port
    echoed,            \* history: the lines printed by ConsoleFormatter.arduino
    reads,             \* history: the results of read_cards_from_file, one per call
    played,            \* history: the arguments of play_cards_audio, one per call
    \* ---- play_cards_audio applied to one card sequence ----
    a_pc,              \* "idle", "call", "loop", "returned"
    card_order,        \* the argument, each card the sequence of its characters
    audio_dir,         \* os.path.exists(AUDIO_DIR)
    cue_files,         \* the card codes c for which AUDIO_DIR/c.wav exists
    a_idx,             \* the position of the for loop in card_order
    played_count,
    a_log,             \* history: what was done, one entry per event
    \* ---- poker_hand_reader.py, run_test_mode ----
    t_pc,              \* "idle", "menu": at the menu or in auto mode, "batch": in the for
                       \* loop of option 2, "exit": loop left
    t_left,            \* the hands the for loop of option 2 has still to generate
    auto_mode,
    t_hand,            \* hand: the random hand generated last
    t_io,              \* history: the outcomes of the HAND writes issued for t_hand
    \* ---- poker_hand_reader.py, main(): the handling of local input ----
    in_pc,             \* "idle", "loop": in the loop, "exit": loop left
    input_buffer,      \* input_buffer, as the sequence of its characters
    in_char,           \* char: the last result of get_char, "None" for a timeout
    typed,             \* history: the characters get_char delivered, in order
    calls              \* history: what the input handling did with its tokens: add_card,
                       \* reset, status, quit, or the rejection of an invalid token

cam_vars == <<cam_pc, detected_qrs, previous_count, unique_qr_codes, flop_detected, flop_cards,
              turn_detected, turn_card, river_detected, river_card, key, first_seen>>

reader_vars == <<current_cards, card_count, serial, ser, is_open, wire, attempts, accepted, n_calls,
                 last_op, last_ret>>

validate_vars == <<v_pc, v_raw, v_card, v_again>>

encode_vars == <<e_pc, e_cards, e_out>>

poll_vars == <<p_pc, p_open, inbox, cards_file, p_step, arrived, echoed, reads, played>>

audio_vars == <<a_pc, card_order, audio_dir, cue_files, a_idx, played_count, a_log>>

test_vars == <<t_pc, t_left, auto_mode, t_hand, t_io>>

input_vars == <<in_pc, input_buffer, in_char, typed, calls>>

\* the variables of the specifications of single functions and of the
\* inbound poll
fn_vars == <<validate_vars, encode_vars, poll_vars, audio_vars>>

\* the variables the reader, the camera loop and the control loop leave alone
pure_vars == <<fn_vars, test_vars, input_vars>>

\* the terminal mode, the way the loop was left and the ports nobody closes
exit_vars == <<term, exit_reason, leaked>>

loop_vars == <<loop_pc, now, last_serial_attempt, failed_handle, io, last_open, exit_vars>>

vars == <<cam_pc, detected_qrs, previous_count, unique_qr_codes, flop_detected, flop_cards,
          turn_detected, turn_card, river_detected, river_card, key, first_seen,
          current_cards, card_count, serial, ser, is_open, wire, attempts, accepted, n_calls,
          last_op, last_ret, v_pc, v_raw, v_card, v_again, e_pc, e_cards, e_out,
          loop_pc, now, last_serial_attempt, failed_handle, io, last_open,
          term, exit_reason, leaked,
          p_pc, p_open, inbox, cards_file, p_step, arrived, echoed, reads, played,
          a_pc, card_order, audio_dir, cue_files, a_idx, played_count, a_log,
          t_pc, t_left, auto_mode, t_hand, t_io,
          in_pc, input_buffer, in_char, typed, calls>>

----------------------------------------------------------------------------
(* Helpers *)

Range(s) == {s[i] : i \in 1..Len(s)}

SeqsUpTo(S, n) == UNION {[1..k -> S] : k \in 0..n}

NoneValue == "None"

----------------------------------------------------------------------------
(* The 52 cards: PokerHandReader.RANKS, SUITS, VALID_CARDS *)

RANKS == {"A", "2", "3", "4", "5", "6", "7", "8", "9", "10", "J", "Q", "K"}

SUITS == {"S", "H", "D", "C"}

VALID_CARDS ==
    {"AS", "2S", "3S", "4S", "5S", "6S", "7S", "8S", "9S", "10S", "JS", "QS", "KS",
     "AH", "2H", "3H", "4H", "5H", "6H", "7H", "8H", "9H", "10H", "JH", "QH", "KH",
     "AD", "2D", "3D", "4D", "5D", "6D", "7D", "8D", "9D", "10D", "JD", "QD", "KD",
     "AC", "2C", "3C", "4C", "5C", "6C", "7C", "8C", "9C", "10C", "JC", "QC", "KC"}

----------------------------------------------------------------------------
(* Camera-side hand tracker: live_qr_detector.py, main()                   *)

\* The decoded strings the camera can show, named in the order in which they
\* first come into view.  format_qr_data returns a text payload as it is, so
\* a payload that is no card code ("WWW") reaches the tracker like any other.
Deck == <<"AS", "10H", "WWW", "7D", "KC">>

\* Most QR codes decoded in one frame (detectAndDecodeMulti returns several).
MaxPerFrame == 2

\* The detections one frame can deliver when n codes have been seen so far:
\* codes not seen yet, in the order of Deck, and the code seen first again
\* (a code that stays in view is decoded in every frame).
FrameInputs(n) ==
    {d \in SeqsUpTo(Range(Deck), MaxPerFrame) :
        \A i \in 1..Len(d) : \A j \in 1..Len(Deck) :
            /\ (d[i] = Deck[j] /\ j > n) =>
                  \A m \in (n+1)..(j-1) : \E h \in 1..(i-1) : d[h] = Deck[m]
            /\ (d[i] = Deck[j] /\ j <= n) => j = 1}

InsertAt(s, i, x) == SubSeq(s, 1, i-1) \o <<x>> \o SubSeq(s, i, Len(s))

Perms(S) == {f \in [1..Cardinality(S) -> S] : Range(f) = S}

\* CPython's set is a hash table that list() walks in slot order.  A new
\* element lands in the slot its hash selects, at any place among the elements
\* already there; the table of 8 slots is rebuilt when the 5th element is
\* stored (fill*5 >= mask*3), which can reorder all of them.
SetResizes(n) == n = 5

SetAddNoCheck(order, x) == {Append(order, x)}

\* unique_qr_codes.add(x): the iteration orders the set can have afterwards.
SetAdd(order, x) ==
    IF x \in Range(order) THEN {order}
    ELSE IF SetResizes(Len(order) + 1) THEN Perms(Range(order) \cup {x})
    ELSE {InsertAt(order, i, x) : i \in 1..(Len(order) + 1)}

\* for qr in detected_qrs: unique_qr_codes.add(qr['data'])
RECURSIVE AddAll(_, _)
AddAll(order, d) ==
    IF d = <<>> THEN {order}
    ELSE UNION {AddAll(o, Tail(d)) : o \in SetAdd(order, Head(d))}

\* history: the first-detection order after the detections d
RECURSIVE AppendNew(_, _)
AppendNew(s, d) ==
    IF d = <<>> THEN s
    ELSE AppendNew(IF Head(d) \in Range(s) THEN s ELSE Append(s, Head(d)), Tail(d))

FlopFiresLate(current_count, detected) == current_count >= 5 /\ ~detected

\* if current_count >= 3 and not flop_detected
FlopFires(current_count, detected) == current_count >= 3 /\ ~detected

\* if current_count >= 4 and not turn_detected
TurnFires(current_count, detected) == current_count >= 4 /\ ~detected

\* if current_count >= 5 and not river_detected
RiverFires(current_count, detected) == current_count >= 5 /\ ~detected

\* One frame: decode, add the decoded codes to the set, evaluate the three
\* thresholds in the order flop, turn, river.
ProcessFrame ==
    /\ cam_pc = "frame"
    /\ \E d \in FrameInputs(Len(first_seen)) :
       \E unique_list \in AddAll(unique_qr_codes, d) :
         LET current_count == Len(unique_list) IN
           /\ detected_qrs' = d
           /\ previous_count' = Len(unique_qr_codes)
           /\ unique_qr_codes' = unique_list
           /\ first_seen' = AppendNew(first_seen, d)
           /\ IF FlopFires(current_count, flop_detected)
                THEN flop_cards' = SubSeq(unique_list, 1, 3) /\ flop_detected' = TRUE
                ELSE UNCHANGED <<flop_cards, flop_detected>>
           /\ IF TurnFires(current_count, turn_detected)
                THEN turn_card' = unique_list[4] /\ turn_detected' = TRUE
                ELSE UNCHANGED <<turn_card, turn_detected>>
           /\ IF RiverFires(current_count, river_detected)
                THEN river_card' = unique_list[5] /\ river_detected' = TRUE
                ELSE UNCHANGED <<river_card, river_detected>>
    /\ cam_pc' = "key"
    /\ UNCHANGED key
    /\ UNCHANGED <<reader_vars, pure_vars, loop_vars>>

\* key == ord('q'): break
KeyQuit ==
    /\ cam_pc = "key"
    /\ key' = "q"
    /\ cam_pc' = "done"
    /\ UNCHANGED <<detected_qrs, previous_count, unique_qr_codes, flop_detected, flop_cards,
                   turn_detected, turn_card, river_detected, river_card, first_seen>>
    /\ UNCHANGED <<reader_vars, pure_vars, loop_vars>>

ResetKeepsFlop ==
    /\ unique_qr_codes' = <<>>
    /\ flop_detected' = FALSE
    /\ flop_cards' = flop_cards
    /\ turn_detected' = FALSE
    /\ turn_card' = NoneValue
    /\ river_detected' = FALSE
    /\ river_card' = NoneValue

\* the assignments of the branch key == ord('r')
ResetHand ==
    /\ unique_qr_codes' = <<>>
    /\ flop_detected' = FALSE
    /\ flop_cards' = <<>>
    /\ turn_detected' = FALSE
    /\ turn_card' = NoneValue
    /\ river_detected' = FALSE
    /\ river_card' = NoneValue

\* key == ord('r'): reset the entire hand; the next iteration starts with
\* detected_qrs = []
KeyReset ==
    /\ cam_pc = "key"
    /\ key' = "r"
    /\ ResetHand
    /\ first_seen' = <<>>
    /\ detected_qrs' = <<>>
    /\ cam_pc' = "frame"
    /\ UNCHANGED previous_count
    /\ UNCHANGED <<reader_vars, pure_vars, loop_vars>>

\* no key, 's' (save the frame) or 'd' (toggle debug): the tracker is not touched
KeyOther ==
    /\ cam_pc = "key"
    /\ \E k \in {"none", "s", "d"} : key' = k
    /\ detected_qrs' = <<>>
    /\ cam_pc' = "frame"
    /\ UNCHANGED <<previous_count, unique_qr_codes, flop_detected, flop_cards, turn_detected,
                   turn_card, river_detected, river_card, first_seen>>
    /\ UNCHANGED <<reader_vars, pure_vars, loop_vars>>

----------------------------------------------------------------------------
(* PokerHandReader: poker_hand_reader.py                                   *)

\* The cards handed to the reader in the model.
ReaderCards == {"AS", "7H", "10D", "KH"}

\* Most method calls and link events in one run.
MaxCalls == 6

\* rank = card[:-1], suit = card[-1]
RankOf(card) == CHOOSE r \in RANKS : \E su \in SUITS : card = r \o su

SuitOf(card) == CHOOSE su \in SUITS : \E r \in RANKS : card = r \o su

CardToListTenAsTen(card) ==
    LET rank == RankOf(card)
        suit_char == SuitOf(card)
    IN  IF rank \in {"A", "J", "Q", "K"} THEN <<rank, "B", suit_char>>
        ELSE <<"N", rank, suit_char>>

\* card_to_list with every suit falling to the default of suit_map.get
CardToListDefaultSuit(card) ==
    LET rank == RankOf(card)
    IN  IF rank \in {"A", "J", "Q", "K"} THEN <<rank, "B", "D">>
        ELSE IF rank = "10" THEN <<"N", "1", "D">>
        ELSE <<"N", rank, "D">>

\* card_to_list: [face, number, suit]
card_to_list(card) ==
    LET rank == RankOf(card)
        suit_char == SuitOf(card)
    IN  IF rank = "A" THEN <<"A", "B", suit_char>>
        ELSE IF rank = "J" THEN <<"J", "B", suit_char>>
        ELSE IF rank = "Q" THEN <<"Q", "B", suit_char>>
        ELSE IF rank = "K" THEN <<"K", "B", suit_char>>
        ELSE IF rank = "10" THEN <<"N", "1", suit_char>>
        ELSE <<"N", rank, suit_char>>

\* message = "HAND:" + ",".join(card1_list + card2_list) + "\n", held as its
\* prefix, its comma-separated tokens and its terminator
HandMessage(cards) == <<"HAND:">> \o card_to_list(cards[1]) \o card_to_list(cards[2]) \o <<"\n">>

\* b"R\n"
ResetMessage == <<"R", "\n">>

\* What serial.write / serial.flush can do: return, raise OSError or
\* SerialException, or raise another exception (termios.error from flush).
WriteOutcomes == {"ok", "OSError", "Exception"}

SendHandAnyLength(cards, conn, open) ==
    LET RECURSIVE FlattenCards(_)
        FlattenCards(cs) ==
            IF cs = <<>> THEN <<>>
            ELSE card_to_list(Head(cs)) \o FlattenCards(Tail(cs))
    IN
    IF conn = NoneValue
      THEN {[ret |-> FALSE, serial |-> conn, is_open |-> open, written |-> <<>>,
             raised |-> "none"]}
    ELSE IF ~open
      THEN {[ret |-> FALSE, serial |-> NoneValue, is_open |-> open, written |-> <<>>,
             raised |-> "none"]}
    ELSE {IF o = "ok"
            THEN [ret |-> TRUE, serial |-> conn, is_open |-> open,
                  written |-> << <<"HAND:">> \o FlattenCards(cards) \o <<"\n">> >>,
                  raised |-> "none"]
          ELSE IF o = "OSError"
            THEN [ret |-> FALSE, serial |-> NoneValue, is_open |-> FALSE, written |-> <<>>,
                  raised |-> o]
          ELSE [ret |-> FALSE, serial |-> conn, is_open |-> open, written |-> <<>>,
                raised |-> o]
          : o \in WriteOutcomes}

\* send_hand_to_arduino(cards) with self.serial = conn and conn.is_open =
\* open: the possible results, each with the value returned, self.serial and
\* is_open afterwards, the messages written and the exception write or flush
\* raised.
send_hand_to_arduino(cards, conn, open) ==
    IF conn = NoneValue
      THEN {[ret |-> FALSE, serial |-> conn, is_open |-> open, written |-> <<>>,
             raised |-> "none"]}
    ELSE IF Len(cards) # 2
      THEN {[ret |-> FALSE, serial |-> conn, is_open |-> open, written |-> <<>>,
             raised |-> "none"]}
    ELSE IF ~open
      THEN {[ret |-> FALSE, serial |-> NoneValue, is_open |-> open, written |-> <<>>,
             raised |-> "none"]}
    ELSE {IF o = "ok"
            THEN [ret |-> TRUE, serial |-> conn, is_open |-> open,
                  written |-> <<HandMessage(cards)>>, raised |-> "none"]
          ELSE IF o = "OSError"
            THEN [ret |-> FALSE, serial |-> NoneValue, is_open |-> FALSE, written |-> <<>>,
                  raised |-> o]
          ELSE [ret |-> FALSE, serial |-> conn, is_open |-> open, written |-> <<>>,
                raised |-> o]
          : o \in WriteOutcomes}

IsDuplicateOfOldest(card, cards) == cards # <<>> /\ card = cards[1]

IsDuplicatePermanent(card, cards) == card \in Range(cards) \cup Range(accepted)

\* if card in self.current_cards
IsDuplicate(card, cards) == card \in Range(cards)

KeepOldestTwo(cards) == IF Len(cards) > 2 THEN SubSeq(cards, 1, Len(cards) - 1) ELSE cards

\* if len(self.current_cards) > 2: self.current_cards.pop(0)
KeepTwo(cards) == IF Len(cards) > 2 THEN Tail(cards) ELSE cards

ShouldSendAnyPair(cards, count) == Len(cards) = 2

ShouldSendOddCount(cards, count) == Len(cards) = 2 /\ count % 2 = 1

\* if len(self.current_cards) == 2 and self.card_count % 2 == 0
ShouldSend(cards, count) == Len(cards) = 2 /\ count % 2 = 0

AddCardCountingDuplicates(card, cards, count) ==
    IF IsDuplicate(card, cards)
      THEN [ret |-> FALSE, cards |-> cards, count |-> count + 1]
      ELSE [ret |-> TRUE, cards |-> KeepTwo(Append(cards, card)), count |-> count + 1]

AddCardOnlyWhenLinked(card, cards, count) ==
    IF IsDuplicate(card, cards) \/ serial = NoneValue
      THEN [ret |-> FALSE, cards |-> cards, count |-> count]
      ELSE [ret |-> TRUE, cards |-> KeepTwo(Append(cards, card)), count |-> count + 1]

\* add_card up to the send: the value returned, the window and the counter
AddCardState(card, cards, count) ==
    IF IsDuplicate(card, cards)
      THEN [ret |-> FALSE, cards |-> cards, count |-> count]
      ELSE [ret |-> TRUE, cards |-> KeepTwo(Append(cards, card)), count |-> count + 1]

\* reader.add_card(card)
AddCard ==
    /\ n_calls < MaxCalls
    /\ \E card \in ReaderCards :
         LET r == AddCardState(card, current_cards, card_count) IN
           /\ last_op' = <<"add_card", card>>
           /\ last_ret' = r.ret
           /\ current_cards' = r.cards
           /\ card_count' = r.count
           /\ accepted' = IF r.ret THEN Append(accepted, card) ELSE accepted
           /\ IF r.ret /\ ShouldSend(r.cards, r.count)
                THEN \E res \in send_hand_to_arduino(r.cards, serial, is_open) :
                       /\ serial' = res.serial
                       /\ is_open' = res.is_open
                       /\ wire' = wire \o res.written
                       /\ attempts' = Append(attempts, r.cards)
                ELSE UNCHANGED <<serial, is_open, wire, attempts>>
    /\ n_calls' = n_calls + 1
    /\ UNCHANGED ser
    /\ UNCHANGED <<cam_vars, pure_vars, loop_vars>>

\* The card lists handed to send_hand_to_arduino by a direct call.
HandArgs == {<<>>, <<"AS">>, <<"AS", "7H">>, <<"AS", "7H", "10D">>}

\* reader.send_hand_to_arduino(cards), called from outside add_card
SendHand ==
    /\ n_calls < MaxCalls
    /\ \E cards \in HandArgs :
         \E res \in send_hand_to_arduino(cards, serial, is_open) :
           /\ last_op' = <<"send_hand", cards>>
           /\ last_ret' = res.ret
           /\ serial' = res.serial
           /\ is_open' = res.is_open
           /\ wire' = wire \o res.written
    /\ n_calls' = n_calls + 1
    /\ UNCHANGED <<current_cards, card_count, accepted, ser, attempts>>
    /\ UNCHANGED <<cam_vars, pure_vars, loop_vars>>

\* reader.store_hand()
StoreHand ==
    /\ n_calls < MaxCalls
    /\ last_op' = <<"store_hand">>
    /\ last_ret' = NoneValue
    /\ IF Len(current_cards) >= 2 /\ Len(current_cards) = 2
         THEN \E res \in send_hand_to_arduino(current_cards, serial, is_open) :
                /\ serial' = res.serial
                /\ is_open' = res.is_open
                /\ wire' = wire \o res.written
                /\ attempts' = Append(attempts, current_cards)
         ELSE UNCHANGED <<serial, is_open, wire, attempts>>
    /\ current_cards' = <<>>
    /\ n_calls' = n_calls + 1
    /\ UNCHANGED <<card_count, accepted, ser>>
    /\ UNCHANGED <<cam_vars, pure_vars, loop_vars>>

ResetWriteTwice(conn, open) ==
    IF conn = NoneValue
      THEN {[serial |-> conn, written |-> <<>>, raised |-> "none"]}
    ELSE {[serial |-> IF o = "OSError" THEN NoneValue ELSE conn,
           written |-> IF o = "ok" THEN <<ResetMessage, ResetMessage>> ELSE <<>>,
           raised |-> IF o = "ok" THEN "none" ELSE o]
          : o \in IF open THEN WriteOutcomes ELSE {"OSError"}}

\* the write of reset() with self.serial = conn and conn.is_open = open: the
\* possible results, each with self.serial afterwards, the messages written
\* and the exception raised; write on a closed port raises SerialException
reset_write(conn, open) ==
    IF conn = NoneValue
      THEN {[serial |-> conn, written |-> <<>>, raised |-> "none"]}
    ELSE {[serial |-> IF o = "OSError" THEN NoneValue ELSE conn,
           written |-> IF o = "ok" THEN <<ResetMessage>> ELSE <<>>,
           raised |-> IF o = "ok" THEN "none" ELSE o]
          : o \in IF open THEN WriteOutcomes ELSE {"OSError"}}

\* reader.reset()
Reset ==
    /\ n_calls < MaxCalls
    /\ last_op' = <<"reset">>
    /\ last_ret' = NoneValue
    /\ current_cards' = <<>>
    /\ card_count' = 0
    /\ accepted' = <<>>
    /\ \E res \in reset_write(serial, is_open) :
         /\ wire' = wire \o res.written
         /\ serial' = res.serial
    /\ n_calls' = n_calls + 1
    /\ UNCHANGED <<is_open, attempts, ser>>
    /\ UNCHANGED <<cam_vars, pure_vars, loop_vars>>

\* attempt_serial_connect, called by the control loop while ser or
\* reader.serial is None, when it gets past the backoff interval and ser is
\* not an open port: s = serial.Serial(...); ser = s; reader.serial = ser,
\* or ser = None; reader.serial = None when the port cannot be opened
Connect ==
    /\ n_calls < MaxCalls
    /\ ser = NoneValue \/ serial = NoneValue
    /\ ser = NoneValue \/ ~is_open
    /\ \E opened \in BOOLEAN :
         /\ ser' = IF opened THEN "port" ELSE NoneValue
         /\ serial' = IF opened THEN "port" ELSE NoneValue
         /\ is_open' = opened
         /\ last_op' = <<"connect", opened>>
    /\ n_calls' = n_calls + 1
    /\ UNCHANGED <<current_cards, card_count, wire, attempts, accepted, last_ret>>
    /\ UNCHANGED <<cam_vars, pure_vars, loop_vars>>

\* the control loop's reader.serial = ser after attempt_serial_connect
\* returned without opening a port (backoff interval, or ser still open):
\* ser is the handle the reader dropped
Reassign ==
    /\ n_calls < MaxCalls
    /\ serial = NoneValue
    /\ ser # NoneValue
    /\ serial' = ser
    /\ last_op' = <<"reassign">>
    /\ n_calls' = n_calls + 1
    /\ UNCHANGED <<current_cards, card_count, ser, is_open, wire, attempts, accepted, last_ret>>
    /\ UNCHANGED <<cam_vars, pure_vars, loop_vars>>

\* the control loop's handling of a failed inbound read: ser.close();
\* ser = None; reader.serial = None
Disconnect ==
    /\ n_calls < MaxCalls
    /\ ser # NoneValue
    /\ serial # NoneValue
    /\ ser' = NoneValue
    /\ serial' = NoneValue
    /\ is_open' = FALSE
    /\ last_op' = <<"disconnect">>
    /\ n_calls' = n_calls + 1
    /\ UNCHANGED <<current_cards, card_count, wire, attempts, accepted, last_ret>>
    /\ UNCHANGED <<cam_vars, pure_vars, loop_vars>>

----------------------------------------------------------------------------
(* PokerHandReader.validate_card, on strings held as character sequences   *)

UpperLetters ==
    {"A", "B", "C", "D", "E", "F", "G", "H", "I", "J", "K", "L", "M",
     "N", "O", "P", "Q", "R", "S", "T", "U", "V", "W", "X", "Y", "Z"}

LowerLetters == <<"a", "b", "c", "d", "e", "f", "g", "h", "i", "j", "k", "l", "m",
                  "n", "o", "p", "q", "r", "s", "t", "u", "v", "w", "x", "y", "z">>

UpperOfLower == <<"A", "B", "C", "D", "E", "F", "G", "H", "I", "J", "K", "L", "M",
                  "N", "O", "P", "Q", "R", "S", "T", "U", "V", "W", "X", "Y", "Z">>

Digits == {"0", "1", "2", "3", "4", "5", "6", "7", "8", "9"}

\* the characters str.strip() removes
Whitespace == {" ", "\t", "\n", "\r"}

\* the characters of the raw strings of the model
RawAlphabet == {"A", "a", "S", "s", "1", "0", "7", "Z", " ", "-"}

\* Longest raw string of the model.
MaxRawLen == 4

\* ch.upper()
UpperChar(ch) ==
    IF \E i \in 1..Len(LowerLetters) : LowerLetters[i] = ch
      THEN UpperOfLower[CHOOSE i \in 1..Len(LowerLetters) : LowerLetters[i] = ch]
      ELSE ch

\* str.upper()
Upper(str) == [i \in 1..Len(str) |-> UpperChar(str[i])]

\* str.strip()
RECURSIVE LStrip(_)
LStrip(str) ==
    IF str # <<>> /\ Head(str) \in Whitespace THEN LStrip(Tail(str)) ELSE str

RECURSIVE RStrip(_)
RStrip(str) ==
    IF str # <<>> /\ str[Len(str)] \in Whitespace
      THEN RStrip(SubSeq(str, 1, Len(str) - 1))
      ELSE str

Strip(str) == RStrip(LStrip(str))

\* the regular expression class [A-Z0-9]
MatchesAZ09(ch) == ch \in UpperLetters \cup Digits

\* re.sub(r'[^A-Z0-9]', '', str)
ReSubNonAZ09(str) == SelectSeq(str, MatchesAZ09)

\* the Python string of a character sequence
RECURSIVE Join(_)
Join(str) == IF str = <<>> THEN "" ELSE Head(str) \o Join(Tail(str))

\* the character sequence of a card code
CardChars(card) ==
    (IF RankOf(card) = "10" THEN <<"1", "0">> ELSE <<RankOf(card)>>) \o <<SuitOf(card)>>

ValidateFilterFirst(input_str) ==
    LET cleaned == Upper(ReSubNonAZ09(Strip(input_str)))
    IN  IF Len(cleaned) < 2 \/ Len(cleaned) > 3 THEN NoneValue
        ELSE IF Join(cleaned) \in VALID_CARDS THEN Join(cleaned)
        ELSE NoneValue

ValidateNoMembership(input_str) ==
    LET cleaned == ReSubNonAZ09(Upper(Strip(input_str)))
    IN  IF Len(cleaned) < 2 \/ Len(cleaned) > 3 THEN NoneValue
        ELSE Join(cleaned)

ValidateTwoCharsOnly(input_str) ==
    LET cleaned == ReSubNonAZ09(Upper(Strip(input_str)))
    IN  IF Len(cleaned) < 2 \/ Len(cleaned) > 2 THEN NoneValue
        ELSE IF Join(cleaned) \in VALID_CARDS THEN Join(cleaned)
        ELSE NoneValue

\* validate_card(input_str): the card code, or None
validate_card(input_str) ==
    LET cleaned == ReSubNonAZ09(Upper(Strip(input_str)))
    IN  IF Len(cleaned) < 2 \/ Len(cleaned) > 3 THEN NoneValue
        ELSE IF Join(cleaned) \in VALID_CARDS THEN Join(cleaned)
        ELSE NoneValue

\* the raw strings of the model: all strings over RawAlphabet up to MaxRawLen
\* characters, and the 52 card codes
RawInputs == SeqsUpTo(RawAlphabet, MaxRawLen) \cup {CardChars(c) : c \in VALID_CARDS}

\* card = reader.validate_card(raw)
Validate ==
    /\ v_pc = "input"
    /\ v_card' = validate_card(v_raw)
    /\ v_pc' = "validated"
    /\ UNCHANGED <<v_raw, v_again>>
    /\ UNCHANGED <<cam_vars, reader_vars, test_vars, input_vars, encode_vars, loop_vars, poll_vars, audio_vars>>

\* reader.validate_card(card) of a card validate_card returned
Revalidate ==
    /\ v_pc = "validated"
    /\ v_card # NoneValue
    /\ v_again' = validate_card(CardChars(v_card))
    /\ v_pc' = "again"
    /\ UNCHANGED <<v_raw, v_card>>
    /\ UNCHANGED <<cam_vars, reader_vars, test_vars, input_vars, encode_vars, loop_vars, poll_vars, audio_vars>>

InitCam ==
    /\ cam_pc = "frame"
    /\ detected_qrs = <<>>
    /\ previous_count = 0
    /\ unique_qr_codes = <<>>
    /\ flop_detected = FALSE
    /\ flop_cards = <<>>
    /\ turn_detected = FALSE
    /\ turn_card = NoneValue
    /\ river_detected = FALSE
    /\ river_card = NoneValue
    /\ key = "none"
    /\ first_seen = <<>>

InitReader ==
    /\ current_cards = <<>>
    /\ card_count = 0
    /\ serial = NoneValue
    /\ ser = NoneValue
    /\ is_open = FALSE
    /\ wire = <<>>
    /\ attempts = <<>>
    /\ accepted = <<>>
    /\ n_calls = 0
    /\ last_op = <<"init">>
    /\ last_ret = NoneValue

InitValidateIdle ==
    /\ v_pc = "idle"
    /\ v_raw = <<>>
    /\ v_card = NoneValue
    /\ v_again = NoneValue

InitEncodeIdle ==
    /\ e_pc = "idle"
    /\ e_cards = <<>>
    /\ e_out = <<>>

\* The clock at program start: any time.time() is far more than the
\* reconnect interval after the initial last_serial_attempt = 0.0.
StartTime == 10

InitLoopIdle ==
    /\ loop_pc = "idle"
    /\ now = StartTime
    /\ last_serial_attempt = 0
    /\ failed_handle = FALSE
    /\ io = <<"none">>
    /\ last_open = <<>>
    /\ term = "cooked"
    /\ exit_reason = "none"
    /\ leaked = FALSE

\* detected_cards.txt before anything wrote it
MissingFile == [exists |-> FALSE, readable |-> FALSE, lines |-> <<>>]

InitPollIdle ==
    /\ p_pc = "idle"
    /\ p_open = FALSE
    /\ inbox = <<>>
    /\ cards_file = MissingFile
    /\ p_step = "init"
    /\ arrived = <<>>
    /\ echoed = <<>>
    /\ reads = <<>>
    /\ played = <<>>

InitAudioIdle ==
    /\ a_pc = "idle"
    /\ card_order = <<>>
    /\ audio_dir = FALSE
    /\ cue_files = {}
    /\ a_idx = 1
    /\ played_count = 0
    /\ a_log = <<>>

InitTestIdle ==
    /\ t_pc = "idle"
    /\ t_left = 0
    /\ auto_mode = FALSE
    /\ t_hand = <<>>
    /\ t_io = <<>>

InitInputIdle ==
    /\ in_pc = "idle"
    /\ input_buffer = <<>>
    /\ in_char = NoneValue
    /\ typed = <<>>
    /\ calls = <<>>

Init ==
    /\ InitCam
    /\ InitTestIdle
    /\ InitInputIdle
    /\ InitReader
    /\ InitValidateIdle
    /\ InitEncodeIdle
    /\ InitLoopIdle
    /\ InitPollIdle
    /\ InitAudioIdle

NextCam == ProcessFrame \/ KeyQuit \/ KeyReset \/ KeyOther

SpecCam == Init /\ [][NextCam]_vars

NextReader ==
    AddCard \/ StoreHand \/ SendHand \/ Reset \/ Connect \/ Reassign \/ Disconnect

SpecReader == Init /\ [][NextReader]_vars

\* The reader driven by add_card and reset only, beside the link events.
NextAddReset == AddCard \/ Reset \/ Connect \/ Reassign \/ Disconnect

SpecAddReset == Init /\ [][NextAddReset]_vars

InitValidate ==
    /\ InitCam
    /\ InitTestIdle
    /\ InitInputIdle
    /\ InitReader
    /\ InitEncodeIdle
    /\ InitLoopIdle
    /\ InitPollIdle
    /\ InitAudioIdle
    /\ v_pc = "input"
    /\ v_raw \in RawInputs
    /\ v_card = NoneValue
    /\ v_again = NoneValue

NextValidate == Validate \/ Revalidate

SpecValidate == InitValidate /\ [][NextValidate]_vars

\* the hands of the model: every pair of card codes
EncodeInputs == [1..2 -> VALID_CARDS]

\* card1_list + card2_list of send_hand_to_arduino, for the hand e_cards
Encode ==
    /\ e_pc = "input"
    /\ e_out' = card_to_list(e_cards[1]) \o card_to_list(e_cards[2])
    /\ e_pc' = "encoded"
    /\ UNCHANGED e_cards
    /\ UNCHANGED <<cam_vars, reader_vars, test_vars, input_vars, validate_vars, loop_vars, poll_vars, audio_vars>>

InitEncode ==
    /\ InitCam
    /\ InitTestIdle
    /\ InitInputIdle
    /\ InitReader
    /\ InitValidateIdle
    /\ InitLoopIdle
    /\ InitPollIdle
    /\ InitAudioIdle
    /\ e_pc = "input"
    /\ e_cards \in EncodeInputs
    /\ e_out = <<>>

NextEncode == Encode

SpecEncode == InitEncode /\ [][NextEncode]_vars

----------------------------------------------------------------------------
(* main() of poker_hand_reader.py: the control loop of normal mode         *)

\* RECONNECT_INTERVAL = 5.0
RECONNECT_INTERVAL == 5

\* time.sleep(2) after the port was opened
ConnectSleep == 2

\* The seconds that pass while an iteration waits for input: less than one,
\* or three.
TickSteps == {0, 3}

\* The clock stops here.
MaxTime == 22

\* Most cards and reset commands entered in one run.
MaxInputs == 4

\* The cards entered in the model.
LoopCards == {"AS", "7H", "10D"}

\* ser.in_waiting / ser.readline(): on an open port they return or raise
\* OSError or SerialException; a closed port object raises, SerialException
\* or another exception (the POSIX in_waiting hands its fd, None after close,
\* to ioctl, a TypeError).
ReadOutcomes(open) == IF open THEN {"ok", "OSError"} ELSE {"OSError", "Exception"}

AttemptConnectResending(force) ==
    IF ~force /\ now - last_serial_attempt < RECONNECT_INTERVAL
      THEN {[ser |-> ser, is_open |-> is_open, last |-> last_serial_attempt, now |-> now,
             opened |-> "skipped", written |-> <<>>]}
    ELSE IF ser # NoneValue /\ is_open
      THEN {[ser |-> ser, is_open |-> is_open, last |-> now, now |-> now,
             opened |-> "already_open", written |-> <<>>]}
    ELSE {[ser |-> NoneValue, is_open |-> FALSE, last |-> now, now |-> now,
           opened |-> "failed", written |-> <<>>]}
         \cup
         (IF now + ConnectSleep <= MaxTime
            THEN {[ser |-> "port", is_open |-> TRUE, last |-> now, now |-> now + ConnectSleep,
                   opened |-> "ok",
                   written |-> IF Len(current_cards) = 2
                                 THEN <<HandMessage(current_cards)>> ELSE <<>>]}
            ELSE {})

AttemptConnectNoRateCheck(force) ==
    IF ser # NoneValue /\ is_open
      THEN {[ser |-> ser, is_open |-> is_open, last |-> now, now |-> now,
             opened |-> "already_open", written |-> <<>>]}
    ELSE {[ser |-> NoneValue, is_open |-> FALSE, last |-> now, now |-> now,
           opened |-> "failed", written |-> <<>>]}
         \cup
         (IF now + ConnectSleep <= MaxTime
            THEN {[ser |-> "port", is_open |-> TRUE, last |-> now, now |-> now + ConnectSleep,
                   opened |-> "ok", written |-> <<>>]}
            ELSE {})

\* attempt_serial_connect(force), with a serial port configured: the possible
\* results, each with ser, its is_open, last_serial_attempt and the clock
\* afterwards, what became of the port-open attempt ("skipped": inside the
\* interval, "already_open", "ok", "failed") and the messages written.
\* "interrupted": serial.Serial(...) returned the open port s and
\* KeyboardInterrupt arrived during time.sleep(2), before ser = s; it is not
\* an Exception, so the handler of attempt_serial_connect does not run. Inside
\* the loop it reaches main()'s except KeyboardInterrupt; in the startup call
\* it ends the process before the loop is entered, which is left out.
\* No statement closes s: finalized tells whether the runtime ran the
\* finalizer of the unreferenced port object (which closes it) before the
\* program was done, which the language leaves to the implementation
attempt_serial_connect(force) ==
    IF ~force /\ now - last_serial_attempt < RECONNECT_INTERVAL
      THEN {[ser |-> ser, is_open |-> is_open, last |-> last_serial_attempt, now |-> now,
             opened |-> "skipped", written |-> <<>>]}
    ELSE IF ser # NoneValue /\ is_open
      THEN {[ser |-> ser, is_open |-> is_open, last |-> now, now |-> now,
             opened |-> "already_open", written |-> <<>>]}
    ELSE {[ser |-> NoneValue, is_open |-> FALSE, last |-> now, now |-> now,
           opened |-> "failed", written |-> <<>>]}
         \cup
         (IF now + ConnectSleep <= MaxTime
            THEN {[ser |-> "port", is_open |-> TRUE, last |-> now, now |-> now + ConnectSleep,
                   opened |-> "ok", written |-> <<>>]}
            ELSE {})
         \cup
         (IF ~force
            THEN {[ser |-> ser, is_open |-> is_open, last |-> now, now |-> now,
                   opened |-> "interrupted", written |-> <<>>, finalized |-> f] :
                  f \in BOOLEAN}
            ELSE {})

\* the state after attempt_serial_connect(force) ended as res, and after the
\* caller's reader.serial = ser
Connected(force, res) ==
    /\ ser' = res.ser
    /\ serial' = res.ser
    /\ is_open' = res.is_open
    /\ last_serial_attempt' = res.last
    /\ now' = res.now
    /\ wire' = wire \o res.written
    /\ failed_handle' = IF res.opened = "ok" THEN FALSE ELSE failed_handle
    /\ io' = IF res.opened \in {"ok", "failed", "interrupted"}
               THEN <<"open", res.opened>>
               ELSE <<"none">>
    /\ leaked' = IF res.opened = "interrupted" THEN (leaked \/ ~res.finalized) ELSE leaked
    /\ last_open' = IF res.opened \in {"ok", "failed", "interrupted"}
                      THEN <<[at |-> now, forced |-> force, read_failed |-> FALSE]>>
                      ELSE last_open

StartupExitOnFailure ==
    /\ loop_pc = "start"
    /\ \E res \in attempt_serial_connect(TRUE) :
         /\ Connected(TRUE, res)
         /\ loop_pc' = IF res.opened = "failed" THEN "exit" ELSE "top"
         /\ term' = IF res.opened = "failed" THEN term ELSE "raw"
    /\ UNCHANGED exit_reason
    /\ UNCHANGED <<current_cards, card_count, attempts, accepted, n_calls, last_op, last_ret>>
    /\ UNCHANGED <<cam_vars, pure_vars>>

\* attempt_serial_connect(force=True) before the menu; the menu choice is
\* normal mode: old_settings = termios.tcgetattr(fd), tty.setraw(fd)
Startup ==
    /\ loop_pc = "start"
    /\ \E res \in attempt_serial_connect(TRUE) : Connected(TRUE, res)
    /\ loop_pc' = "top"
    /\ term' = "raw"
    /\ UNCHANGED exit_reason
    /\ UNCHANGED <<current_cards, card_count, attempts, accepted, n_calls, last_op, last_ret>>
    /\ UNCHANGED <<cam_vars, pure_vars>>

\* if ser is None or reader.serial is None:
\*     attempt_serial_connect(force=False); reader.serial = ser
LoopTop ==
    /\ loop_pc = "top"
    /\ IF ser = NoneValue \/ serial = NoneValue
         THEN \E res \in attempt_serial_connect(FALSE) :
                /\ Connected(FALSE, res)
                /\ IF res.opened = "interrupted"
                     THEN /\ loop_pc' = "exit"
                          /\ exit_reason' = "interrupt"
                          /\ term' = "restored"
                     ELSE /\ loop_pc' = "poll"
                          /\ UNCHANGED <<term, exit_reason>>
         ELSE /\ io' = <<"none">>
              /\ loop_pc' = "poll"
              /\ UNCHANGED <<ser, serial, is_open, last_serial_attempt, now, wire,
                             failed_handle, last_open, exit_vars>>
    /\ UNCHANGED <<current_cards, card_count, attempts, accepted, n_calls, last_op, last_ret>>
    /\ UNCHANGED <<cam_vars, pure_vars>>

\* if ser is not None and reader.serial is not None: drain the lines the
\* device printed; on OSError or SerialException close and drop the port and
\* set last_serial_attempt = 0.0; any other exception leaves the loop, and
\* the finally clause closes ser
LoopPoll ==
    /\ loop_pc = "poll"
    /\ IF ser # NoneValue /\ serial # NoneValue
         THEN \E o \in ReadOutcomes(is_open) :
                /\ io' = <<"read", o>>
                /\ IF o = "ok"
                     THEN /\ loop_pc' = "input"
                          /\ UNCHANGED <<ser, serial, is_open, last_serial_attempt,
                                         failed_handle, last_open>>
                   ELSE IF o = "OSError"
                     THEN /\ ser' = NoneValue
                          /\ serial' = NoneValue
                          /\ is_open' = FALSE
                          /\ last_serial_attempt' = 0
                          /\ failed_handle' = TRUE
                          /\ last_open' = [i \in DOMAIN last_open |->
                                             [last_open[i] EXCEPT !.read_failed = TRUE]]
                          /\ loop_pc' = "input"
                   ELSE /\ is_open' = FALSE
                        /\ loop_pc' = "exit"
                        /\ UNCHANGED <<ser, serial, last_serial_attempt, failed_handle,
                                       last_open>>
                /\ exit_reason' = IF o = "Exception" THEN "error" ELSE exit_reason
                /\ term' = IF o = "Exception" THEN "restored" ELSE term
         ELSE /\ io' = <<"none">>
              /\ loop_pc' = "input"
              /\ UNCHANGED <<ser, serial, is_open, last_serial_attempt, failed_handle,
                             last_open, term, exit_reason>>
    /\ UNCHANGED <<current_cards, card_count, wire, attempts, accepted, n_calls, last_op,
                   last_ret, now, leaked>>
    /\ UNCHANGED <<cam_vars, pure_vars>>

\* get_char(timeout=0.1) returned None and no token is complete
InputIdle ==
    /\ loop_pc = "input"
    /\ \E dt \in TickSteps :
         /\ now + dt <= MaxTime
         /\ now' = now + dt
    /\ io' = <<"none">>
    /\ loop_pc' = "top"
    /\ UNCHANGED <<last_serial_attempt, failed_handle, last_open, exit_vars>>
    /\ UNCHANGED <<reader_vars, cam_vars, pure_vars>>

\* a token was read that validate_card accepts: reader.add_card(card)
InputCard ==
    /\ loop_pc = "input"
    /\ n_calls < MaxInputs
    /\ \E card \in LoopCards :
         LET r == AddCardState(card, current_cards, card_count) IN
           /\ last_op' = <<"add_card", card>>
           /\ last_ret' = r.ret
           /\ current_cards' = r.cards
           /\ card_count' = r.count
           /\ accepted' = IF r.ret THEN Append(accepted, card) ELSE accepted
           /\ IF r.ret /\ ShouldSend(r.cards, r.count)
                THEN \E res \in send_hand_to_arduino(r.cards, serial, is_open) :
                       /\ serial' = res.serial
                       /\ is_open' = res.is_open
                       /\ wire' = wire \o res.written
                       /\ attempts' = Append(attempts, r.cards)
                       /\ failed_handle' = (failed_handle \/ res.raised = "OSError")
                       /\ io' = IF serial # NoneValue /\ is_open
                                  THEN <<"hand", IF res.ret THEN "ok" ELSE res.raised>>
                                  ELSE <<"none">>
                ELSE /\ io' = <<"none">>
                     /\ UNCHANGED <<serial, is_open, wire, attempts, failed_handle>>
    /\ n_calls' = n_calls + 1
    /\ loop_pc' = "top"
    /\ UNCHANGED <<ser, now, last_serial_attempt, last_open, exit_vars>>
    /\ UNCHANGED <<cam_vars, pure_vars>>

\* the token 'R': reader.reset()
InputReset ==
    /\ loop_pc = "input"
    /\ n_calls < MaxInputs
    /\ last_op' = <<"reset">>
    /\ last_ret' = NoneValue
    /\ current_cards' = <<>>
    /\ card_count' = 0
    /\ accepted' = <<>>
    /\ \E res \in reset_write(serial, is_open) :
         /\ wire' = wire \o res.written
         /\ serial' = res.serial
         /\ failed_handle' = (failed_handle \/ res.raised = "OSError")
         /\ io' = IF serial # NoneValue
                    THEN <<"reset", IF res.raised = "none" THEN "ok" ELSE res.raised>>
                    ELSE <<"none">>
    /\ n_calls' = n_calls + 1
    /\ loop_pc' = "top"
    /\ UNCHANGED <<is_open, attempts, ser, now, last_serial_attempt, last_open, exit_vars>>
    /\ UNCHANGED <<cam_vars, pure_vars>>

LeaveLoopNoRelease(reason) ==
    /\ loop_pc' = "exit"
    /\ exit_reason' = reason
    /\ io' = <<"none">>
    /\ UNCHANGED <<current_cards, card_count, serial, ser, is_open, wire, attempts, accepted,
                   n_calls, last_op, last_ret>>
    /\ UNCHANGED <<now, last_serial_attempt, failed_handle, last_open, leaked, term>>
    /\ UNCHANGED <<cam_vars, pure_vars>>

\* break, then the finally clause of main():
\* termios.tcsetattr(fd, TCSADRAIN, old_settings), then ser.close() if ser is
\* not None and ser.is_open
LeaveLoop(reason) ==
    /\ loop_pc' = "exit"
    /\ exit_reason' = reason
    /\ term' = "restored"
    /\ is_open' = IF ser # NoneValue THEN FALSE ELSE is_open
    /\ io' = <<"none">>
    /\ UNCHANGED <<current_cards, card_count, serial, ser, wire, attempts, accepted, n_calls,
                   last_op, last_ret>>
    /\ UNCHANGED <<now, last_serial_attempt, failed_handle, last_open, leaked>>
    /\ UNCHANGED <<cam_vars, pure_vars>>

\* the token 'Q', or the character Ctrl+C or Ctrl+D read in raw mode: break
InputQuit ==
    /\ loop_pc = "input"
    /\ LeaveLoop("quit")

\* get_char returned '' (standard input at end of file): ord(char) raises
\* TypeError; except Exception prints the error and the traceback, and breaks
InputError ==
    /\ loop_pc = "input"
    /\ LeaveLoop("error")

\* KeyboardInterrupt raised anywhere in an iteration other than inside
\* attempt_serial_connect: except KeyboardInterrupt: break
Interrupt ==
    /\ loop_pc \in {"top", "poll", "input"}
    /\ LeaveLoop("interrupt")

InitLoop ==
    /\ InitCam
    /\ InitTestIdle
    /\ InitInputIdle
    /\ InitReader
    /\ InitValidateIdle
    /\ InitEncodeIdle
    /\ InitPollIdle
    /\ InitAudioIdle
    /\ loop_pc = "start"
    /\ now = StartTime
    /\ last_serial_attempt = 0
    /\ failed_handle = FALSE
    /\ io = <<"none">>
    /\ last_open = <<>>
    /\ term = "cooked"
    /\ exit_reason = "none"
    /\ leaked = FALSE

NextLoop ==
    \/ Startup \/ LoopTop \/ LoopPoll \/ InputIdle \/ InputCard \/ InputReset
    \/ InputQuit \/ InputError \/ Interrupt

SpecLoop == InitLoop /\ [][NextLoop]_vars

----------------------------------------------------------------------------
(* poker_hand_reader.py, main(): the inbound poll, line by line             *)

\* Most lines the device sends in a run of the model.
MaxArrived == 3

RiverToken == <<"R", "I", "V", "E", "R">>

\* the lines of the model, as ser.readline() returns them: RIVER, a lower
\* case RIVER after a blank, another message, a longer word, an empty line
InboundLines ==
    {RiverToken \o <<"\r", "\n">>,
     <<" ", "r", "i", "v", "e", "r", "\n">>,
     <<"O", "K", "\n">>,
     RiverToken \o <<"S", "\n">>,
     <<"\r", "\n">>}

\* the states of detected_cards.txt in the model: missing, unreadable (open
\* or the decoding raises), and two contents
FileStates ==
    {MissingFile,
     [exists |-> TRUE, readable |-> FALSE, lines |-> <<>>],
     [exists |-> TRUE, readable |-> TRUE, lines |-> << <<"A", "S", "\n">> >>],
     [exists |-> TRUE, readable |-> TRUE,
      lines |-> << <<" ", "7", "H", " ", "\n">>, <<"\n">>, <<"A", "S">> >>]}

IsRiverCommandLiteral(line) == line = RiverToken

\* line.upper().strip() == "RIVER"
IsRiverCommand(line) == Strip(Upper(line)) = RiverToken

ReadCardsCached(file) ==
    IF reads # <<>> THEN reads[Len(reads)]
    ELSE IF ~file.exists \/ ~file.readable THEN <<>>
    ELSE LET RECURSIVE Cards(_)
             Cards(lines) ==
                 IF lines = <<>> THEN <<>>
                 ELSE IF Strip(Head(lines)) # <<>>
                   THEN <<Strip(Head(lines))>> \o Cards(Tail(lines))
                   ELSE Cards(Tail(lines))
         IN Cards(file.lines)

\* read_cards_from_file(), with CARDS_FILE in the state file:
\* [line.strip() for line in f.readlines() if line.strip()]
read_cards_from_file(file) ==
    IF ~file.exists THEN <<>>
    ELSE IF ~file.readable THEN <<>>
    ELSE LET RECURSIVE Cards(_)
             Cards(lines) ==
                 IF lines = <<>> THEN <<>>
                 ELSE IF Strip(Head(lines)) # <<>>
                   THEN <<Strip(Head(lines))>> \o Cards(Tail(lines))
                   ELSE Cards(Tail(lines))
         IN Cards(file.lines)

\* the device sends a line
PollArrive ==
    /\ p_pc # "idle"
    /\ p_open
    /\ Len(arrived) < MaxArrived
    /\ \E l \in InboundLines :
         /\ inbox' = Append(inbox, l)
         /\ arrived' = Append(arrived, l)
    /\ p_step' = "arrive"
    /\ UNCHANGED <<p_pc, p_open, cards_file, echoed, reads, played>>
    /\ UNCHANGED <<cam_vars, reader_vars, test_vars, input_vars, validate_vars, encode_vars, loop_vars, audio_vars>>

\* detected_cards.txt is written, removed or made unreadable by another
\* process
FileChange ==
    /\ p_pc # "idle"
    /\ \E f \in FileStates \ {cards_file} : cards_file' = f
    /\ p_step' = "file"
    /\ UNCHANGED <<p_pc, p_open, inbox, arrived, echoed, reads, played>>
    /\ UNCHANGED <<cam_vars, reader_vars, test_vars, input_vars, validate_vars, encode_vars, loop_vars, audio_vars>>

\* if ser is None or reader.serial is None: attempt_serial_connect(force=False),
\* which opens the port or not
PollTop ==
    /\ p_pc = "top"
    /\ p_pc' = "poll"
    /\ IF p_open THEN UNCHANGED p_open ELSE p_open' \in BOOLEAN
    /\ p_step' = "top"
    /\ UNCHANGED <<inbox, cards_file, arrived, echoed, reads, played>>
    /\ UNCHANGED <<cam_vars, reader_vars, test_vars, input_vars, validate_vars, encode_vars, loop_vars, audio_vars>>

\* except (OSError, SerialExceptionType): ser.close(); ser = None;
\* reader.serial = None. The lines still buffered go with the port
PollFailed ==
    /\ p_pc' = "input"
    /\ p_open' = FALSE
    /\ inbox' = <<>>
    /\ arrived' = SubSeq(arrived, 1, Len(arrived) - Len(inbox))
    /\ p_step' = "failed"
    /\ UNCHANGED <<cards_file, echoed, reads, played>>

\* one turn of while ser.in_waiting: with a line buffered: readline(),
\* decode, rstrip(); a line that is not empty is echoed, and on the RIVER
\* command the file is read and a list that is not empty is played
PollLine ==
    /\ p_pc = "poll"
    /\ p_open
    /\ inbox # <<>>
    /\ \/ LET line == RStrip(Head(inbox)) IN
            /\ inbox' = Tail(inbox)
            /\ echoed' = IF line # <<>> THEN Append(echoed, line) ELSE echoed
            /\ IF line # <<>> /\ IsRiverCommand(line)
                 THEN LET current == read_cards_from_file(cards_file) IN
                        /\ reads' = Append(reads, current)
                        /\ played' = IF current # <<>> THEN Append(played, current)
                                     ELSE played
                 ELSE UNCHANGED <<reads, played>>
            /\ p_step' = "line"
            /\ UNCHANGED <<p_pc, p_open, cards_file, arrived>>
       \/ PollFailed
    /\ UNCHANGED <<cam_vars, reader_vars, test_vars, input_vars, validate_vars, encode_vars, loop_vars, audio_vars>>

PollDrainedAfterOneLine ==
    /\ p_pc = "poll"
    /\ p_open
    /\ p_step = "line" \/ inbox = <<>>
    /\ \/ /\ p_pc' = "input"
          /\ p_step' = "drained"
          /\ UNCHANGED <<p_open, inbox, cards_file, arrived, echoed, reads, played>>
       \/ PollFailed
    /\ UNCHANGED <<cam_vars, reader_vars, test_vars, input_vars, validate_vars, encode_vars, loop_vars, audio_vars>>

\* ser.in_waiting is 0 and the while loop ends, or ser.in_waiting raises
PollDrained ==
    /\ p_pc = "poll"
    /\ p_open
    /\ inbox = <<>>
    /\ \/ /\ p_pc' = "input"
          /\ p_step' = "drained"
          /\ UNCHANGED <<p_open, inbox, cards_file, arrived, echoed, reads, played>>
       \/ PollFailed
    /\ UNCHANGED <<cam_vars, reader_vars, test_vars, input_vars, validate_vars, encode_vars, loop_vars, audio_vars>>

\* ser is None: the poll is skipped
PollSkip ==
    /\ p_pc = "poll"
    /\ ~p_open
    /\ p_pc' = "input"
    /\ p_step' = "skip"
    /\ UNCHANGED <<p_open, inbox, cards_file, arrived, echoed, reads, played>>
    /\ UNCHANGED <<cam_vars, reader_vars, test_vars, input_vars, validate_vars, encode_vars, loop_vars, audio_vars>>

\* char = get_char(timeout=0.1) and what is done with it
PollInput ==
    /\ p_pc = "input"
    /\ p_pc' = "top"
    /\ p_step' = "input"
    /\ UNCHANGED <<p_open, inbox, cards_file, arrived, echoed, reads, played>>
    /\ UNCHANGED <<cam_vars, reader_vars, test_vars, input_vars, validate_vars, encode_vars, loop_vars, audio_vars>>

InitPoll ==
    /\ InitCam
    /\ InitTestIdle
    /\ InitInputIdle
    /\ InitReader
    /\ InitValidateIdle
    /\ InitEncodeIdle
    /\ InitLoopIdle
    /\ InitAudioIdle
    /\ p_pc = "top"
    /\ p_open \in BOOLEAN
    /\ inbox = <<>>
    /\ cards_file \in FileStates
    /\ p_step = "init"
    /\ arrived = <<>>
    /\ echoed = <<>>
    /\ reads = <<>>
    /\ played = <<>>

NextPoll ==
    \/ PollArrive \/ FileChange \/ PollTop \/ PollLine \/ PollDrained \/ PollSkip
    \/ PollInput

SpecPoll == InitPoll /\ [][NextPoll]_vars

----------------------------------------------------------------------------
(* live_qr_detector.py and poker_hand_reader.py side by side: the camera    *)
(* loop runs while the reader, connected, has the line RIVER to handle.     *)
(* No statement of live_qr_detector.py opens or writes a file, so the       *)
(* steps of the camera loop leave detected_cards.txt as it is.              *)

InitHandoff ==
    /\ InitCam
    /\ InitTestIdle
    /\ InitInputIdle
    /\ InitReader
    /\ InitValidateIdle
    /\ InitEncodeIdle
    /\ InitLoopIdle
    /\ InitAudioIdle
    /\ p_pc = "poll"
    /\ p_open = TRUE
    /\ inbox = <<RiverToken \o <<"\r", "\n">> >>
    /\ cards_file = MissingFile
    /\ p_step = "arrive"
    /\ arrived = inbox
    /\ echoed = <<>>
    /\ reads = <<>>
    /\ played = <<>>

NextHandoff == NextCam \/ PollLine

SpecHandoff == InitHandoff /\ [][NextHandoff]_vars

----------------------------------------------------------------------------
(* poker_hand_reader.py: play_cards_audio applied to one card sequence      *)

\* Longest card sequence of the model.
MaxCardOrder == 3

\* the card strings of the model: two codes, a lower-case code with text
\* after it, and a string without a leading code
AudioCards ==
    {<<"A", "S">>, <<"7", "H">>, <<" ", "7", "h", " ", "x">>, <<"-", "K">>}

\* the card codes that may have a cue file
CueCodes == {<<"A", "S">>, <<"7", "H">>}

\* str.isalnum() of one character
IsAlnum(ch) == ch \in UpperLetters \cup Range(LowerLetters) \cup Digits

\* extract_card_code(card_str): the leading alphanumeric characters of
\* card_str.strip().upper()
extract_card_code(card_str) ==
    LET s == Upper(Strip(card_str))
        RECURSIVE Leading(_)
        Leading(str) ==
            IF str # <<>> /\ IsAlnum(Head(str))
              THEN <<Head(str)>> \o Leading(Tail(str))
              ELSE <<>>
    IN Leading(s)

\* one entry of a_log
Event(ev, code, ok, n) == [ev |-> ev, code |-> code, ok |-> ok, n |-> n]

AudioCallRaising ==
    /\ a_pc = "call"
    /\ IF card_order = <<>>
         THEN /\ a_pc' = "returned"
              /\ a_log' = Append(a_log, Event("no_cards", <<>>, FALSE, 0))
              /\ UNCHANGED audio_dir
       ELSE IF ~audio_dir
         THEN \E ok \in BOOLEAN :
                /\ audio_dir' = ok
                /\ a_log' = Append(a_log, Event("makedirs", <<>>, ok, 0))
                /\ a_pc' = IF ok THEN "returned" ELSE "raised"
       ELSE /\ a_pc' = "loop"
            /\ UNCHANGED <<audio_dir, a_log>>
    /\ UNCHANGED <<card_order, cue_files, a_idx, played_count>>
    /\ UNCHANGED <<cam_vars, reader_vars, test_vars, input_vars, validate_vars, encode_vars, loop_vars, poll_vars>>

\* play_cards_audio(card_order) up to the for loop: no cards, or no
\* AUDIO_DIR (os.makedirs in try/except Exception, then return in both
\* cases), or played_count = 0 and the loop
AudioCall ==
    /\ a_pc = "call"
    /\ IF card_order = <<>>
         THEN /\ a_pc' = "returned"
              /\ a_log' = Append(a_log, Event("no_cards", <<>>, FALSE, 0))
              /\ UNCHANGED audio_dir
       ELSE IF ~audio_dir
         THEN \E ok \in BOOLEAN :
                /\ audio_dir' = ok
                /\ a_log' = Append(a_log, Event("makedirs", <<>>, ok, 0))
                /\ a_pc' = "returned"
       ELSE /\ a_pc' = "loop"
            /\ UNCHANGED <<audio_dir, a_log>>
    /\ UNCHANGED <<card_order, cue_files, a_idx, played_count>>
    /\ UNCHANGED <<cam_vars, reader_vars, test_vars, input_vars, validate_vars, encode_vars, loop_vars, poll_vars>>

AudioCardStopAtMissing ==
    /\ a_pc = "loop"
    /\ a_idx <= Len(card_order)
    /\ LET code == extract_card_code(card_order[a_idx]) IN
         IF code = <<>>
           THEN /\ a_log' = Append(a_log, Event("no_code", <<>>, FALSE, 0))
                /\ a_idx' = a_idx + 1
                /\ UNCHANGED played_count
         ELSE IF code \in cue_files
           THEN \E ok \in BOOLEAN :
                  /\ a_log' = Append(a_log, Event("play", code, ok, 0))
                  /\ played_count' = IF ok THEN played_count + 1 ELSE played_count
                  /\ a_idx' = a_idx + 1
         ELSE /\ a_log' = Append(a_log, Event("missing", code, FALSE, 0))
              /\ a_idx' = Len(card_order) + 1
              /\ UNCHANGED played_count
    /\ UNCHANGED <<a_pc, card_order, audio_dir, cue_files>>
    /\ UNCHANGED <<cam_vars, reader_vars, test_vars, input_vars, validate_vars, encode_vars, loop_vars, poll_vars>>

\* one turn of for i, card in enumerate(card_order, 1): no code: continue;
\* the cue file exists: play_wav(filepath), which returns True or False and
\* raises nothing; no cue file: a warning
AudioCard ==
    /\ a_pc = "loop"
    /\ a_idx <= Len(card_order)
    /\ LET code == extract_card_code(card_order[a_idx]) IN
         IF code = <<>>
           THEN /\ a_log' = Append(a_log, Event("no_code", <<>>, FALSE, 0))
                /\ UNCHANGED played_count
         ELSE IF code \in cue_files
           THEN \E ok \in BOOLEAN :
                  /\ a_log' = Append(a_log, Event("play", code, ok, 0))
                  /\ played_count' = IF ok THEN played_count + 1 ELSE played_count
         ELSE /\ a_log' = Append(a_log, Event("missing", code, FALSE, 0))
              /\ UNCHANGED played_count
    /\ a_idx' = a_idx + 1
    /\ UNCHANGED <<a_pc, card_order, audio_dir, cue_files>>
    /\ UNCHANGED <<cam_vars, reader_vars, test_vars, input_vars, validate_vars, encode_vars, loop_vars, poll_vars>>

\* after the loop: the report of played_count, and the return
AudioReturn ==
    /\ a_pc = "loop"
    /\ a_idx > Len(card_order)
    /\ a_log' = Append(a_log, Event("report", <<>>, played_count > 0, played_count))
    /\ a_pc' = "returned"
    /\ UNCHANGED <<card_order, audio_dir, cue_files, a_idx, played_count>>
    /\ UNCHANGED <<cam_vars, reader_vars, test_vars, input_vars, validate_vars, encode_vars, loop_vars, poll_vars>>

InitAudio ==
    /\ InitCam
    /\ InitTestIdle
    /\ InitInputIdle
    /\ InitReader
    /\ InitValidateIdle
    /\ InitEncodeIdle
    /\ InitLoopIdle
    /\ InitPollIdle
    /\ a_pc = "call"
    /\ card_order \in SeqsUpTo(AudioCards, MaxCardOrder)
    /\ audio_dir \in BOOLEAN
    /\ cue_files \in IF audio_dir THEN SUBSET CueCodes ELSE {{}}
    /\ a_idx = 1
    /\ played_count = 0
    /\ a_log = <<>>

NextAudio == AudioCall \/ AudioCard \/ AudioReturn

SpecAudio == InitAudio /\ [][NextAudio]_vars

-----------------------------------------------------------------------------
(* run_test_mode of poker_hand_reader.py                                   *)

\* Most menu choices that generate hands or reset, per run.
MaxChoices == 3

\* Largest n entered at option 2.
MaxBatch == 2

\* The cards generate_random_hand draws from.
TestCards == {"AS", "7H", "10D"}

\* generate_random_hand: random.sample(cards, 2), two different cards
TestHands == {h \in [1..2 -> TestCards] : h[1] # h[2]}

\* what a call of send_hand_to_arduino did, for the record res of its result:
\* "ok", the exception raised, or "none" when it returned without writing
IoOf(res) == IF res.ret THEN "ok" ELSE res.raised

\* add_card(card) as a whole, with the window cards, the counter count,
\* self.serial = conn and conn.is_open = open: the possible results, each
\* with the value returned, the window, the counter and the link afterwards,
\* the messages written, the hand handed to send_hand_to_arduino and the
\* outcome of its write
AddCardResults(card, cards, count, conn, open) ==
    LET r == AddCardState(card, cards, count) IN
      IF r.ret /\ ShouldSend(r.cards, r.count)
        THEN {[ret |-> r.ret, cards |-> r.cards, count |-> r.count,
               serial |-> res.serial, is_open |-> res.is_open,
               written |-> res.written, tried |-> <<r.cards>>, io |-> <<IoOf(res)>>]
              : res \in send_hand_to_arduino(r.cards, conn, open)}
        ELSE {[ret |-> r.ret, cards |-> r.cards, count |-> r.count,
               serial |-> conn, is_open |-> open,
               written |-> <<>>, tried |-> <<>>, io |-> <<>>]}

\* if reader.serial is not None: reader.send_hand_to_arduino(hand), else the
\* hand is only displayed
SendGenerated(hand, conn, open) ==
    IF conn # NoneValue
      THEN {[ret |-> res.ret, serial |-> res.serial, is_open |-> res.is_open,
             written |-> res.written, io |-> <<IoOf(res)>>]
            : res \in send_hand_to_arduino(hand, conn, open)}
      ELSE {[ret |-> NoneValue, serial |-> conn, is_open |-> open,
             written |-> <<>>, io |-> <<>>]}

\* the handling of one random hand, in option 1 and in each round of option
\* 2: hand = generate_random_hand(); reader.current_cards.clear();
\* reader.card_count = 0; for card in hand: reader.add_card(card); then the
\* send of the hand when reader.serial is not None
GenerateAndSend ==
    \E hand \in TestHands :
      \E r1 \in AddCardResults(hand[1], <<>>, 0, serial, is_open) :
        \E r2 \in AddCardResults(hand[2], r1.cards, r1.count, r1.serial, r1.is_open) :
          \E r3 \in SendGenerated(hand, r2.serial, r2.is_open) :
            /\ t_hand' = hand
            /\ current_cards' = r2.cards
            /\ card_count' = r2.count
            /\ accepted' = (IF r1.ret THEN <<hand[1]>> ELSE <<>>)
                           \o (IF r2.ret THEN <<hand[2]>> ELSE <<>>)
            /\ attempts' = attempts \o r1.tried \o r2.tried
            /\ wire' = wire \o r1.written \o r2.written \o r3.written
            /\ t_io' = r1.io \o r2.io \o r3.io
            /\ serial' = r3.serial
            /\ is_open' = r3.is_open
            /\ last_op' = IF r2.serial # NoneValue THEN <<"send_hand", hand>>
                          ELSE <<"add_card", hand[2]>>
            /\ last_ret' = IF r2.serial # NoneValue THEN r3.ret ELSE r2.ret
            /\ n_calls' = n_calls + 1
            /\ UNCHANGED ser

\* choice '1', entered at the menu or taken by auto mode after its sleep
TestHand ==
    /\ t_pc = "menu"
    /\ n_calls < MaxChoices
    /\ GenerateAndSend
    /\ UNCHANGED <<t_pc, t_left, auto_mode>>
    /\ UNCHANGED <<cam_vars, fn_vars, loop_vars, input_vars>>

\* choice '2' with n >= 1
TestBatchStart ==
    /\ t_pc = "menu"
    /\ ~auto_mode
    /\ \E n \in 1..MaxBatch :
         /\ n_calls + n <= MaxChoices
         /\ t_left' = n
    /\ t_pc' = "batch"
    /\ UNCHANGED <<auto_mode, t_hand, t_io>>
    /\ UNCHANGED <<cam_vars, reader_vars, fn_vars, loop_vars, input_vars>>

\* one round of for i in range(n)
TestBatchHand ==
    /\ t_pc = "batch"
    /\ GenerateAndSend
    /\ t_left' = t_left - 1
    /\ t_pc' = IF t_left = 1 THEN "menu" ELSE "batch"
    /\ UNCHANGED auto_mode
    /\ UNCHANGED <<cam_vars, fn_vars, loop_vars, input_vars>>

\* KeyboardInterrupt in the for loop of option 2
TestBatchInterrupt ==
    /\ t_pc = "batch"
    /\ t_left' = 0
    /\ t_pc' = "menu"
    /\ UNCHANGED <<auto_mode, t_hand, t_io>>
    /\ UNCHANGED <<cam_vars, reader_vars, fn_vars, loop_vars, input_vars>>

\* choice '3': auto_mode = not auto_mode; the menu is not read in auto mode
TestToggleAuto ==
    /\ t_pc = "menu"
    /\ ~auto_mode
    /\ auto_mode' = TRUE
    /\ UNCHANGED <<t_pc, t_left, t_hand, t_io>>
    /\ UNCHANGED <<cam_vars, reader_vars, fn_vars, loop_vars, input_vars>>

\* KeyboardInterrupt in the sleep of auto mode
TestAutoInterrupt ==
    /\ t_pc = "menu"
    /\ auto_mode
    /\ auto_mode' = FALSE
    /\ UNCHANGED <<t_pc, t_left, t_hand, t_io>>
    /\ UNCHANGED <<cam_vars, reader_vars, fn_vars, loop_vars, input_vars>>

\* choice '4': reader.reset()
TestReset ==
    /\ t_pc = "menu"
    /\ ~auto_mode
    /\ n_calls < MaxChoices
    /\ last_op' = <<"reset">>
    /\ last_ret' = NoneValue
    /\ current_cards' = <<>>
    /\ card_count' = 0
    /\ accepted' = <<>>
    /\ \E res \in reset_write(serial, is_open) :
         /\ wire' = wire \o res.written
         /\ serial' = res.serial
    /\ n_calls' = n_calls + 1
    /\ UNCHANGED <<is_open, attempts, ser>>
    /\ UNCHANGED test_vars
    /\ UNCHANGED <<cam_vars, fn_vars, loop_vars, input_vars>>

\* choice 'Q', or EOFError or KeyboardInterrupt at the prompt
TestQuit ==
    /\ t_pc = "menu"
    /\ ~auto_mode
    /\ t_pc' = "exit"
    /\ UNCHANGED <<t_left, auto_mode, t_hand, t_io>>
    /\ UNCHANGED <<cam_vars, reader_vars, fn_vars, loop_vars, input_vars>>

\* run_test_mode(reader, ser) after the initial connection attempt of main():
\* reader.serial = ser, an open port or None
InitTest ==
    /\ InitCam
    /\ InitValidateIdle
    /\ InitEncodeIdle
    /\ InitLoopIdle
    /\ InitPollIdle
    /\ InitAudioIdle
    /\ InitInputIdle
    /\ current_cards = <<>>
    /\ card_count = 0
    /\ \E conn \in {NoneValue, "port"} :
         /\ ser = conn
         /\ serial = conn
         /\ is_open = (conn # NoneValue)
    /\ wire = <<>>
    /\ attempts = <<>>
    /\ accepted = <<>>
    /\ n_calls = 0
    /\ last_op = <<"init">>
    /\ last_ret = NoneValue
    /\ t_pc = "menu"
    /\ t_left = 0
    /\ auto_mode = FALSE
    /\ t_hand = <<>>
    /\ t_io = <<>>

NextTest ==
    \/ TestHand
    \/ TestBatchStart
    \/ TestBatchHand
    \/ TestBatchInterrupt
    \/ TestToggleAuto
    \/ TestAutoInterrupt
    \/ TestReset
    \/ TestQuit

SpecTest == InitTest /\ [][NextTest]_vars

-----------------------------------------------------------------------------
(* main() of poker_hand_reader.py: the handling of local input             *)

\* Most characters get_char delivers in a run.
MaxTyped == 3

\* The control characters the loop tests with ord(char): 3, 4, 127 and 8,
\* and the empty string sys.stdin.read(1) returns at end of file.
CtrlC == "^C"

CtrlD == "^D"

Delete == "^?"

CtrlH == "^H"

Eof == ""

\* the characters get_char delivers in the model
InputChars == {"A", "s", "Q", "1", "0", "R", "\r", "\t", Delete, CtrlC, Eof}

\* str.isalpha() of one character
IsAlpha(ch) == ch \in UpperLetters \cup Range(LowerLetters)

\* str.isprintable() of one character
IsPrintable(ch) == IsAlpha(ch) \/ ch \in Digits \/ ch \in {" ", "-"}

\* reader.add_card(card), called with a validated token
InputAddCard(card) ==
    \E r \in AddCardResults(card, current_cards, card_count, serial, is_open) :
      /\ current_cards' = r.cards
      /\ card_count' = r.count
      /\ serial' = r.serial
      /\ is_open' = r.is_open
      /\ wire' = wire \o r.written
      /\ attempts' = attempts \o r.tried
      /\ accepted' = IF r.ret THEN Append(accepted, card) ELSE accepted
      /\ last_op' = <<"add_card", card>>
      /\ last_ret' = r.ret
      /\ n_calls' = n_calls + 1
      /\ calls' = Append(calls, <<"add_card", card>>)
      /\ UNCHANGED ser

RejectTokenClearing(buf) ==
    /\ calls' = Append(calls, <<"invalid", Join(buf)>>)
    /\ current_cards' = <<>>
    /\ card_count' = 0
    /\ UNCHANGED <<serial, ser, is_open, wire, attempts, accepted, n_calls, last_op, last_ret>>

\* the else branch of 'if card': ConsoleFormatter.error("Invalid card: ...")
RejectToken(buf) ==
    /\ calls' = Append(calls, <<"invalid", Join(buf)>>)
    /\ UNCHANGED reader_vars

\* card = reader.validate_card(input_buffer); if card: reader.add_card(card),
\* else the error message
ProcessCandidate(buf) ==
    LET card == validate_card(buf)
    IN  IF card # NoneValue THEN InputAddCard(card) ELSE RejectToken(buf)

\* reader.reset(), called for the command R
InputResetCommand ==
    /\ last_op' = <<"reset">>
    /\ last_ret' = NoneValue
    /\ current_cards' = <<>>
    /\ card_count' = 0
    /\ accepted' = <<>>
    /\ \E res \in reset_write(serial, is_open) :
         /\ wire' = wire \o res.written
         /\ serial' = res.serial
    /\ n_calls' = n_calls + 1
    /\ calls' = Append(calls, <<"reset">>)
    /\ UNCHANGED <<is_open, attempts, ser>>

InputTimeoutFlushAll ==
    /\ in_pc = "loop"
    /\ in_char' = NoneValue
    /\ IF input_buffer # <<>>
         THEN /\ ProcessCandidate(input_buffer)
              /\ input_buffer' = <<>>
         ELSE UNCHANGED <<input_buffer, calls, reader_vars>>
    /\ UNCHANGED <<in_pc, typed>>
    /\ UNCHANGED <<cam_vars, fn_vars, loop_vars, test_vars>>

\* char is None: the read timed out
InputTimeout ==
    /\ in_pc = "loop"
    /\ in_char' = NoneValue
    /\ LET cmd == Join(Upper(input_buffer)) IN
         IF input_buffer # <<>> /\ Len(input_buffer) = 1 /\ IsAlpha(input_buffer[1])
              /\ cmd = "R"
           THEN /\ InputResetCommand
                /\ input_buffer' = <<>>
                /\ UNCHANGED in_pc
         ELSE IF input_buffer # <<>> /\ Len(input_buffer) = 1 /\ IsAlpha(input_buffer[1])
              /\ cmd = "Q"
           THEN /\ in_pc' = "exit"
                /\ calls' = Append(calls, <<"quit">>)
                /\ UNCHANGED <<input_buffer, reader_vars>>
         ELSE IF input_buffer # <<>> /\ Len(input_buffer) = 1 /\ IsAlpha(input_buffer[1])
              /\ cmd = "S"
           THEN /\ calls' = Append(calls, <<"status">>)
                /\ input_buffer' = <<>>
                /\ UNCHANGED <<in_pc, reader_vars>>
         ELSE IF input_buffer # <<>> /\ Len(input_buffer) >= 2
           THEN /\ ProcessCandidate(input_buffer)
                /\ input_buffer' = <<>>
                /\ UNCHANGED in_pc
         ELSE UNCHANGED <<in_pc, input_buffer, calls, reader_vars>>
    /\ UNCHANGED typed
    /\ UNCHANGED <<cam_vars, fn_vars, loop_vars, test_vars>>

\* ord(char) == 3 or ord(char) == 4: break
InputControl ==
    /\ in_pc = "loop"
    /\ Len(typed) < MaxTyped
    /\ \E ch \in InputChars \cap {CtrlC, CtrlD} :
         /\ in_char' = ch
         /\ typed' = Append(typed, ch)
    /\ in_pc' = "exit"
    /\ calls' = Append(calls, <<"exit">>)
    /\ UNCHANGED <<input_buffer, reader_vars>>
    /\ UNCHANGED <<cam_vars, fn_vars, loop_vars, test_vars>>

\* standard input at end of file: get_char returns '', ord('') raises
\* TypeError, and except Exception leaves the loop
InputEof ==
    /\ in_pc = "loop"
    /\ Len(typed) < MaxTyped
    /\ \E ch \in InputChars \cap {Eof} :
         /\ in_char' = ch
         /\ typed' = Append(typed, ch)
    /\ in_pc' = "exit"
    /\ calls' = Append(calls, <<"error">>)
    /\ UNCHANGED <<input_buffer, reader_vars>>
    /\ UNCHANGED <<cam_vars, fn_vars, loop_vars, test_vars>>

\* char == '\r' or char == '\n'
InputEnter ==
    /\ in_pc = "loop"
    /\ Len(typed) < MaxTyped
    /\ \E ch \in InputChars \cap {"\r", "\n"} :
         /\ in_char' = ch
         /\ typed' = Append(typed, ch)
    /\ IF input_buffer # <<>>
         THEN /\ ProcessCandidate(input_buffer)
              /\ input_buffer' = <<>>
         ELSE UNCHANGED <<input_buffer, calls, reader_vars>>
    /\ UNCHANGED in_pc
    /\ UNCHANGED <<cam_vars, fn_vars, loop_vars, test_vars>>

\* ord(char) == 127 or ord(char) == 8
InputBackspace ==
    /\ in_pc = "loop"
    /\ Len(typed) < MaxTyped
    /\ \E ch \in InputChars \cap {Delete, CtrlH} :
         /\ in_char' = ch
         /\ typed' = Append(typed, ch)
    /\ input_buffer' = IF input_buffer # <<>>
                         THEN SubSeq(input_buffer, 1, Len(input_buffer) - 1)
                         ELSE input_buffer
    /\ UNCHANGED <<in_pc, calls, reader_vars>>
    /\ UNCHANGED <<cam_vars, fn_vars, loop_vars, test_vars>>

\* char.isprintable(): input_buffer += char, then the immediate validation
\* of a buffer of 2 or 3 characters
InputPrintable ==
    /\ in_pc = "loop"
    /\ Len(typed) < MaxTyped
    /\ \E ch \in {c \in InputChars \ {CtrlC, CtrlD, Eof, "\r", "\n", Delete, CtrlH} :
                    IsPrintable(c)} :
         LET buf == Append(input_buffer, ch) IN
           /\ in_char' = ch
           /\ typed' = Append(typed, ch)
           /\ IF Len(buf) >= 2 /\ validate_card(buf) # NoneValue
                THEN /\ InputAddCard(validate_card(buf))
                     /\ input_buffer' = <<>>
              ELSE IF Len(buf) >= 2 /\ Len(buf) = 3
                THEN /\ RejectToken(buf)
                     /\ input_buffer' = <<>>
              ELSE /\ input_buffer' = buf
                   /\ UNCHANGED <<calls, reader_vars>>
    /\ UNCHANGED in_pc
    /\ UNCHANGED <<cam_vars, fn_vars, loop_vars, test_vars>>

\* any other character: no branch takes it
InputIgnored ==
    /\ in_pc = "loop"
    /\ Len(typed) < MaxTyped
    /\ \E ch \in {c \in InputChars \ {CtrlC, CtrlD, Eof, "\r", "\n", Delete, CtrlH} :
                    ~IsPrintable(c)} :
         /\ in_char' = ch
         /\ typed' = Append(typed, ch)
    /\ UNCHANGED <<in_pc, input_buffer, calls, reader_vars>>
    /\ UNCHANGED <<cam_vars, fn_vars, loop_vars, test_vars>>

\* The loop is entered with input_buffer = ""; the runs start with the
\* reader as it was constructed or holding one card, without a link or with
\* the port open.
InitInput ==
    /\ InitCam
    /\ InitValidateIdle
    /\ InitEncodeIdle
    /\ InitLoopIdle
    /\ InitPollIdle
    /\ InitAudioIdle
    /\ InitTestIdle
    /\ \E held \in {<<>>, <<"KH">>} :
         /\ current_cards = held
         /\ card_count = Len(held)
         /\ accepted = held
    /\ \E conn \in {NoneValue, "port"} :
         /\ ser = conn
         /\ serial = conn
         /\ is_open = (conn # NoneValue)
    /\ wire = <<>>
    /\ attempts = <<>>
    /\ n_calls = 0
    /\ last_op = <<"init">>
    /\ last_ret = NoneValue
    /\ in_pc = "loop"
    /\ input_buffer = <<>>
    /\ in_char = NoneValue
    /\ typed = <<>>
    /\ calls = <<>>

NextInput ==
    \/ InputTimeout
    \/ InputControl
    \/ InputEof
    \/ InputEnter
    \/ InputBackspace
    \/ InputPrintable
    \/ InputIgnored

SpecInput == InitInput /\ [][NextInput]_vars

----------------------------------------------------------------------------
(* Properties of the camera-side hand tracker (SpecCam)                    *)

\* the step is the branch key == ord('r') of the camera loop
IsResetStep == cam_pc = "key" /\ key' = "r"

\* the tracker's own state, as a fresh session has it
TrackerState ==
    <<unique_qr_codes, flop_detected, flop_cards, turn_detected, turn_card,
      river_detected, river_card>>

FreshTrackerState == <<<<>>, FALSE, <<>>, FALSE, NoneValue, FALSE, NoneValue>>

\* C1: milestones are reached only in order: in every reachable state
\* river_detected implies turn_detected and turn_detected implies
\* flop_detected, whatever number of codes arrives per frame and wherever
\* resets occur.
C1_MilestonesInOrder ==
    /\ river_detected => turn_detected
    /\ turn_detected => flop_detected

\* a frame that brought two codes at once has fired the turn but not the river
C1_Witness ==
    /\ cam_pc = "key"
    /\ Len(detected_qrs) = 2
    /\ turn_detected
    /\ ~river_detected

\* C2 (as claimed): the captured milestone values follow the first-seen
\* order: flop_cards is the first three distinct codes in the order of their
\* first detection, turn_card the 4th and river_card the 5th.
C2_CapturedFollowFirstSeen ==
    /\ flop_detected => flop_cards = SubSeq(first_seen, 1, 3)
    /\ turn_detected => turn_card = first_seen[4]
    /\ river_detected => river_card = first_seen[5]

\* C3 (as claimed): the flop transition happens in a step that ends with
\* exactly 3 distinct codes, the turn transition with exactly 4, the river
\* transition with exactly 5.
C3_MilestonesAtOwnLength ==
    [][ /\ (~flop_detected /\ flop_detected') => Len(unique_qr_codes') = 3
        /\ (~turn_detected /\ turn_detected') => Len(unique_qr_codes') = 4
        /\ (~river_detected /\ river_detected') => Len(unique_qr_codes') = 5 ]_vars

\* C4: the reset key can be taken whenever the loop polls the keyboard, in
\* every tracker state, and it leaves no carry-over: the tracker is in the
\* state of a fresh session and the loop is back at the decoding of a frame.
C4_ResetLeavesNoCarryOver ==
    /\ [](cam_pc = "key" => ENABLED KeyReset)
    /\ [][IsResetStep =>
            /\ TrackerState' = FreshTrackerState
            /\ detected_qrs' = <<>>
            /\ cam_pc' = "frame"]_vars

\* a reset was taken when at least four distinct codes had been counted
C4_Witness ==
    /\ key = "r"
    /\ cam_pc = "frame"
    /\ previous_count >= 4
    /\ TrackerState = FreshTrackerState

\* C5: between two resets the tracker is monotone: the set of distinct codes
\* loses no element, its size grows only when a code not yet present is
\* detected, a frame with only present codes changes nothing, and a
\* milestone flag that is true stays true.
C5_MonotoneBetweenResets ==
    [][~IsResetStep =>
         /\ Range(unique_qr_codes) \subseteq Range(unique_qr_codes')
         /\ Len(unique_qr_codes') > Len(unique_qr_codes) =>
               \E i \in 1..Len(detected_qrs') :
                   detected_qrs'[i] \notin Range(unique_qr_codes)
         /\ (cam_pc = "frame" /\ Range(detected_qrs') \subseteq Range(unique_qr_codes)) =>
               TrackerState' = TrackerState
         /\ Len(unique_qr_codes') = Cardinality(Range(unique_qr_codes'))
         /\ flop_detected => flop_detected'
         /\ turn_detected => turn_detected'
         /\ river_detected => river_detected']_vars

\* a frame re-detected a present code after the flop and changed nothing
C5_Witness ==
    /\ cam_pc = "key"
    /\ detected_qrs = <<"AS", "AS">>
    /\ previous_count = 3
    /\ Len(unique_qr_codes) = 3
    /\ flop_detected

\* C6 (as claimed): every element of the distinct-code set is one of the 52
\* canonical card codes.
C6_OnlyValidCardsTracked == Range(unique_qr_codes) \subseteq VALID_CARDS

----------------------------------------------------------------------------
(* Properties of PokerHandReader (SpecReader)                              *)

\* the step is a call add_card(c)
IsAddStep(c) == n_calls' = n_calls + 1 /\ last_op' = <<"add_card", c>>

\* the link as the reader sees it, and what went over it
LinkState == <<serial, ser, is_open, wire, attempts>>

\* C7: the hole-pair window never holds more than 2 cards, and add_card of a
\* card that is not in the window appends it, evicting the oldest entry when
\* the window is full: after a, b, c the window is [b, c].
C7_WindowFifo ==
    /\ [](Len(current_cards) <= 2)
    /\ [][\A c \in ReaderCards :
            (IsAddStep(c) /\ c \notin Range(current_cards)) =>
                current_cards' = IF Len(current_cards) = 2
                                   THEN <<current_cards[2], c>>
                                   ELSE Append(current_cards, c)]_vars

\* three distinct cards were accepted and the window holds the last two
C7_Witness ==
    /\ last_op = <<"add_card", "10D">>
    /\ accepted = <<"AS", "7H", "10D">>
    /\ current_cards = <<"7H", "10D">>

\* C8: add_card of a card that is in the window returns False and changes
\* neither the window, nor the counter, nor the link (nothing is written, no
\* send is attempted); add_card of a card that is not in the window returns
\* True.
C8_DuplicateIsNoOp ==
    [][\A c \in ReaderCards :
         IsAddStep(c) =>
            IF c \in Range(current_cards)
              THEN /\ last_ret' = FALSE
                   /\ current_cards' = current_cards
                   /\ card_count' = card_count
                   /\ LinkState' = LinkState
              ELSE last_ret' = TRUE]_vars

\* with a connected link, a card of the full window was added again and rejected
C8_Witness ==
    /\ last_op = <<"add_card", "AS">>
    /\ last_ret = FALSE
    /\ current_cards = <<"AS", "7H">>
    /\ card_count = 2
    /\ serial = "port"
    /\ Len(wire) = 1

\* C9: an accepted add_card hands the window to send_hand_to_arduino exactly
\* when the window then holds 2 cards and the counter is even, and writes at
\* most that hand's frame; otherwise it attempts no send and the link is
\* untouched.
C9_SendOnFullAndEven ==
    [][\A c \in ReaderCards :
         (IsAddStep(c) /\ last_ret' = TRUE) =>
            IF Len(current_cards') = 2 /\ card_count' % 2 = 0
              THEN /\ attempts' = Append(attempts, current_cards')
                   /\ wire' \in {wire, Append(wire, HandMessage(current_cards'))}
              ELSE LinkState' = LinkState]_vars

\* the second card was sent, the third left the counter odd and nothing more
\* was written
C9_Witness ==
    /\ last_op = <<"add_card", "10D">>
    /\ last_ret = TRUE
    /\ card_count = 3
    /\ current_cards = <<"7H", "10D">>
    /\ attempts = <<<<"AS", "7H">>>>
    /\ wire = <<HandMessage(<<"AS", "7H">>)>>

\* C10: a card that was accepted earlier and is no longer in the window is
\* accepted again: add_card returns True, increments the counter and puts
\* the card into the window.
C10_EvictedCardAcceptedAgain ==
    [][\A c \in ReaderCards :
         (IsAddStep(c) /\ c \in Range(accepted) /\ c \notin Range(current_cards)) =>
            /\ last_ret' = TRUE
            /\ card_count' = card_count + 1
            /\ c \in Range(current_cards')]_vars

\* AS was accepted, evicted by two other cards, and accepted again
C10_Witness ==
    /\ last_op = <<"add_card", "AS">>
    /\ last_ret = TRUE
    /\ accepted = <<"AS", "7H", "10D", "AS">>
    /\ card_count = 4
    /\ current_cards = <<"10D", "AS">>

----------------------------------------------------------------------------
(* Properties of validate_card (SpecValidate)                              *)

\* letters of either case and digits
IsAlphanumeric(ch) ==
    ch \in UpperLetters \cup Digits \/ \E i \in 1..Len(LowerLetters) : LowerLetters[i] = ch

\* the letters and digits of a raw string, in upper case
CleanedForm(raw) == Upper(SelectSeq(raw, IsAlphanumeric))

\* the reference function: the cleaned form if it has 2 or 3 characters and
\* is one of the 52 card codes, otherwise None
ReferenceValidate(raw) ==
    IF Len(CleanedForm(raw)) \in {2, 3} /\ \E c \in VALID_CARDS : CardChars(c) = CleanedForm(raw)
      THEN CHOOSE c \in VALID_CARDS : CardChars(c) = CleanedForm(raw)
      ELSE NoneValue

\* C11: validate_card equals the reference function on every raw string of
\* the model (surrounding whitespace stripped, upper case, characters other
\* than letters and digits deleted, then the result if it has 2 or 3
\* characters and is one of the 52 codes, otherwise None), and it changes no
\* reader state.
C11_ValidateEqualsReference ==
    /\ [](v_pc \in {"validated", "again"} => v_card = ReferenceValidate(v_raw))
    /\ [][reader_vars' = reader_vars]_vars

\* a lower-case code with a hyphen inside and a blank in front was validated to AS
C11_Witness ==
    /\ v_pc = "validated"
    /\ v_raw = <<" ", "a", "-", "s">>
    /\ v_card = "AS"

\* the raw string has a character that is neither a letter nor a digit
HasNonAlphanumeric(raw) == \E i \in 1..Len(raw) : ~IsAlphanumeric(raw[i])

\* C12 (as claimed): validate_card returns None for every token that has a
\* wrong length, an unknown rank or suit, or contains a non-alphanumeric
\* character.
C12_InvalidTokensRejected ==
    (v_pc = "validated" /\
        (\/ Len(v_raw) \notin {2, 3}
         \/ HasNonAlphanumeric(v_raw)
         \/ ~\E c \in VALID_CARDS : CardChars(c) = Upper(v_raw)))
    => v_card = NoneValue

\* C12 (amended): validate_card returns None for every token whose cleaned
\* form (letters and digits only, upper case) has a wrong length or an
\* unknown rank or suit; whitespace and other non-alphanumeric characters
\* are deleted and do not by themselves make a token invalid.
C12_InvalidCleanedFormRejected ==
    (v_pc = "validated" /\
        (\/ Len(CleanedForm(v_raw)) \notin {2, 3}
         \/ ~\E r \in RANKS : \E su \in SUITS :
               CleanedForm(v_raw) = (IF r = "10" THEN <<"1", "0">> ELSE <<r>>) \o <<su>>))
    => v_card = NoneValue

\* a token of the right length with an unknown rank was rejected
C12_Witness ==
    /\ v_pc = "validated"
    /\ v_raw = <<"Z", "S">>
    /\ v_card = NoneValue

\* C13: validate_card is idempotent on the card domain: each of the 52 codes
\* validates to itself, and a card that validate_card returned validates to
\* itself again.
C13_ValidateIdempotent ==
    /\ (v_pc = "again" => v_again = v_card)
    /\ \A c \in VALID_CARDS :
          (v_pc \in {"validated", "again"} /\ v_raw = CardChars(c)) => v_card = c

\* the three-character code 10S was validated and validated again
C13_Witness ==
    /\ v_pc = "again"
    /\ v_raw = <<"1", "0", "s">>
    /\ v_card = "10S"
    /\ v_again = "10S"

----------------------------------------------------------------------------
(* Properties of card_to_list (SpecEncode)                                 *)

\* the wire mapping of a rank: its face token and its number token
WireFace(r) == IF r \in {"A", "J", "Q", "K"} THEN r ELSE "N"

WireNumber(r) ==
    IF r \in {"A", "J", "Q", "K"} THEN "B"
    ELSE IF r = "10" THEN "1"
    ELSE r

\* C14: card_to_list equals the wire mapping for each of the 52 cards: A, J,
\* Q, K give [rank, B, suit], 10 gives [N, 1, suit], 2-9 give [N, digit,
\* suit], the suit unchanged; (AS, 7H) flattens to A,B,S,N,7,H and
\* (10D, KH) to N,1,D,K,B,H.
C14_CardToListIsWireMapping ==
    e_pc = "encoded" =>
        /\ \A r \in RANKS : \A su \in SUITS : \A i \in 1..2 :
              e_cards[i] = r \o su =>
                 SubSeq(e_out, 3*i - 2, 3*i) = <<WireFace(r), WireNumber(r), su>>
        /\ Len(e_out) = 6
        /\ e_cards = <<"AS", "7H">> => e_out = <<"A", "B", "S", "N", "7", "H">>
        /\ e_cards = <<"10D", "KH">> => e_out = <<"N", "1", "D", "K", "B", "H">>

\* the hand (10D, KH) was encoded
C14_Witness ==
    /\ e_pc = "encoded"
    /\ e_cards = <<"10D", "KH">>
    /\ e_out = <<"N", "1", "D", "K", "B", "H">>

----------------------------------------------------------------------------
(* Properties of the frames written to the device link (SpecReader)        *)

\* the encoding of one card: face, number, suit
IsCardTokens(t) ==
    \E r \in RANKS : \E su \in SUITS : t = <<WireFace(r), WireNumber(r), su>>

\* 'R' newline, or 'HAND:' + the 6 tokens of two cards + newline
IsFrame(m) ==
    \/ m = <<"R", "\n">>
    \/ /\ Len(m) = 8
       /\ m[1] = "HAND:"
       /\ IsCardTokens(SubSeq(m, 2, 4))
       /\ IsCardTokens(SubSeq(m, 5, 7))
       /\ m[8] = "\n"

\* C15: every message written to the link is the reset frame or a HAND frame
\* of exactly 6 tokens encoding 2 cards, and a send_hand_to_arduino call with
\* a number of cards other than 2 writes nothing and returns False.
C15_OnlyTwoFrameKinds ==
    /\ [](\A i \in 1..Len(wire) : IsFrame(wire[i]))
    /\ [][\A cards \in HandArgs :
             (last_op' = <<"send_hand", cards>> /\ Len(cards) # 2)
                => (wire' = wire /\ last_ret' = FALSE)]_vars

\* a HAND frame and a reset frame were written, then a one-card send on the
\* open link returned False
C15_Witness ==
    /\ last_op = <<"send_hand", <<"AS">> >>
    /\ last_ret = FALSE
    /\ serial # NoneValue
    /\ is_open
    /\ wire = <<HandMessage(<<"AS", "7H">>), ResetMessage>>

----------------------------------------------------------------------------
(* Properties of the control loop and the device link (SpecLoop)           *)

\* the step performed a link operation on a port handle
IsHandleIo(x) == x[1] \in {"read", "hand", "reset"}

\* the step made a port-open attempt
IsOpenAttempt(x) == x[1] = "open"

\* C16: after an I/O failure on a HAND send, a reset send or an inbound read
\* the failed handle is closed and discarded by the loop and the reader, it
\* is not used again, and the link stays disconnected until a port-open
\* attempt succeeds.
C16_FailedHandleDropped ==
    /\ [](failed_handle => (ser = NoneValue /\ serial = NoneValue /\ ~is_open))
    /\ [][failed_handle => ~IsHandleIo(io')]_vars

\* C17: after a link failure, iterations within the backoff interval of the
\* last port-open attempt perform no I/O attempt on the link, and two
\* non-forced port-open attempts are never less than the interval apart.
C17_ReconnectRateLimited ==
    [][/\ (failed_handle /\ last_open # <<>>
             /\ now - last_open[1].at < RECONNECT_INTERVAL) => io' = <<"none">>
       /\ (loop_pc = "top" /\ IsOpenAttempt(io') /\ last_open # <<>>
             /\ ~last_open[1].forced) => now - last_open[1].at >= RECONNECT_INTERVAL]_vars

\* C17 (amended): a non-forced port-open attempt is made only when at least
\* the interval has passed since last_serial_attempt, and it is at least the
\* interval after the previous port-open attempt unless an inbound read
\* failed in between.
C17_RateLimitedUnlessReadFailed ==
    [][(loop_pc = "top" /\ IsOpenAttempt(io')) =>
          /\ now - last_serial_attempt >= RECONNECT_INTERVAL
          /\ last_serial_attempt' = now
          /\ (last_open # <<>> /\ ~last_open[1].read_failed)
                => now - last_open[1].at >= RECONNECT_INTERVAL]_vars

\* after a failed HAND send and a failed non-forced port-open attempt at 15,
\* the next port-open attempt was made at 21
C17_Witness ==
    /\ loop_pc = "poll"
    /\ IsOpenAttempt(io)
    /\ failed_handle
    /\ attempts # <<>>
    /\ last_open = <<[at |-> 21, forced |-> FALSE, read_failed |-> FALSE]>>

\* the step is the user leaving the loop: the quit command or an interrupt
IsUserExit == exit_reason' \in {"quit", "interrupt"}

\* C18: once the interval has elapsed with the link still disconnected after
\* a failure, the next iteration makes exactly one port-open attempt and
\* records its time as the new last-attempt time.
C18_OneAttemptAfterInterval ==
    [][(loop_pc = "top" /\ failed_handle /\ (ser = NoneValue \/ serial = NoneValue)
          /\ now - last_serial_attempt >= RECONNECT_INTERVAL /\ ~IsUserExit)
         => (IsOpenAttempt(io') /\ last_serial_attempt' = now)]_vars

\* the step is an add_card call of the loop that accepted its card
IsAcceptStep == loop_pc = "input" /\ n_calls' = n_calls + 1
                /\ last_op'[1] = "add_card" /\ last_ret' = TRUE

\* the step is a reset call of the loop
IsLoopResetStep == loop_pc = "input" /\ n_calls' = n_calls + 1 /\ last_op' = <<"reset">>

C20_LinkFailureNotFatal ==
    [][/\ (IsHandleIo(io') /\ io'[2] = "OSError") => loop_pc' \in {"top", "input"}
       /\ (failed_handle /\ loop_pc \in {"top", "poll"} /\ ~IsUserExit)
             => loop_pc' \in {"poll", "input"}]_vars

----------------------------------------------------------------------------
(* The reader without a link (SpecReader)                                  *)

\* the window after add_card(c), as a function of the window alone
WindowAfter(c, cards) ==
    IF c \in Range(cards) THEN cards
    ELSE IF Len(cards) = 2 THEN <<cards[2], c>>
    ELSE Append(cards, c)

\* the accepted-card counter after add_card(c)
CountAfter(c, cards, count) == IF c \in Range(cards) THEN count ELSE count + 1

\* C21: with no link handle held, send_hand_to_arduino writes nothing and
\* returns False; and what add_card does to the window and to the counter
\* is a function of the window, the counter and the card alone, whatever
\* the state of the link and the outcome of the send.
C21_LinkObliviousWindow ==
    [][/\ \A c \in ReaderCards :
            IsAddStep(c) =>
               /\ current_cards' = WindowAfter(c, current_cards)
               /\ card_count' = CountAfter(c, current_cards, card_count)
               /\ last_ret' = (c \notin Range(current_cards))
       /\ serial = NoneValue => wire' = wire
       /\ \A cards \in HandArgs :
            (last_op' = <<"send_hand", cards>> /\ n_calls' = n_calls + 1
               /\ serial = NoneValue)
              => (last_ret' = FALSE /\ serial' = NoneValue /\ is_open' = is_open)]_vars

\* never connected: the second card completed the hand (AS, 7H), the send
\* was requested and nothing was written
C21_Witness ==
    /\ n_calls = 2
    /\ last_op = <<"add_card", "7H">>
    /\ last_ret = TRUE
    /\ current_cards = <<"AS", "7H">>
    /\ card_count = 2
    /\ attempts = << <<"AS", "7H">> >>
    /\ serial = NoneValue
    /\ ser = NoneValue
    /\ wire = <<>>

----------------------------------------------------------------------------
(* Errors and the ways out of the control loop (SpecLoop)                  *)

Iteration == {"top", "poll", "input"}

\* the step is part of an iteration and an error was raised in it: a link
\* operation that did not succeed, or an error that left the loop
IsIterationError ==
    /\ loop_pc \in Iteration
    /\ \/ exit_reason' = "error"
       \/ Len(io') = 2 /\ io'[2] \notin {"ok", "interrupted"}

\* C22: every error raised while processing one iteration of the control
\* loop is caught at the loop boundary and logged, and the loop continues
\* with the next iteration; no error of an iteration ends the process.
C22_IterationErrorsContinue ==
    [][IsIterationError => (loop_pc' \in Iteration /\ exit_reason' = "none")]_vars

\* the step raised an error that the operation raising it handles itself:
\* a failed port-open attempt, a failed HAND or reset write, an OSError or
\* SerialException of the inbound poll
IsHandledLinkError ==
    /\ Len(io') = 2
    /\ io'[2] \notin {"ok", "interrupted"}
    /\ io' # <<"read", "Exception">>

\* C22 (amended): an error the link operations handle themselves leaves the
\* loop running, at startup too; any other error of an iteration is caught
\* at the loop boundary, ends the loop, and the terminal is restored and the
\* loop's port closed.
C22_BoundaryErrorEndsLoop ==
    /\ [][IsHandledLinkError =>
             (loop_pc' \in Iteration /\ exit_reason' = "none"
                /\ term' = IF loop_pc = "start" THEN "raw" ELSE term)]_vars
    /\ [][(IsIterationError /\ ~IsHandledLinkError) =>
             (loop_pc' = "exit" /\ exit_reason' = "error" /\ term' = "restored"
                /\ (ser' # NoneValue => ~is_open'))]_vars

\* the loop was left by an error at its boundary while it held an open port
C22_Witness ==
    /\ loop_pc = "exit"
    /\ exit_reason = "error"
    /\ io = <<"none">>
    /\ term = "restored"
    /\ ser = "port"
    /\ serial = "port"
    /\ ~is_open
    /\ ~failed_handle

\* the step is the startup connection attempt and the port could not be opened
IsStartupOpenFailure == loop_pc = "start" /\ io' = <<"open", "failed">>

\* C23: if the device link cannot be opened at startup, the hand reader
\* exits without entering the control loop.
C23_StartupFailureExits ==
    [][IsStartupOpenFailure => loop_pc' = "exit"]_vars

\* C23 (amended): if the device link cannot be opened at startup, the hand
\* reader enters the control loop without a link, the terminal in raw mode,
\* and the time of the attempt recorded for the reconnect attempts.
C23_StartupFailureEntersLoop ==
    [][IsStartupOpenFailure =>
          (loop_pc' = "top" /\ ser' = NoneValue /\ serial' = NoneValue /\ term' = "raw"
             /\ exit_reason' = "none" /\ last_serial_attempt' = now)]_vars

\* the loop is at the top of its first iteration after the startup attempt
\* failed
C23_Witness ==
    /\ loop_pc = "top"
    /\ io = <<"open", "failed">>
    /\ last_open = <<[at |-> StartTime, forced |-> TRUE, read_failed |-> FALSE]>>
    /\ ser = NoneValue
    /\ serial = NoneValue
    /\ term = "raw"

\* C24: on every way out of the control loop (quit, Ctrl+C/Ctrl+D, an
\* unexpected error, an interrupt at any point of an iteration, a reconnect
\* attempt and its settle delay included) the terminal settings saved at
\* entry are restored and every serial port that was opened is closed.
C24_ReleaseOnEveryExit ==
    [](loop_pc = "exit" => (term = "restored" /\ (ser # NoneValue => ~is_open) /\ ~leaked))

----------------------------------------------------------------------------
(* The inbound poll and the handoff file (SpecPoll)                        *)

\* the step handled the oldest buffered line
IsLineStep == p_pc = "poll" /\ p_step' = "line"

\* the step called read_cards_from_file
IsFileRead == Len(reads') = Len(reads) + 1

\* a and b are the same text but for the case of their letters
SameIgnoringCase(a, b) ==
    /\ Len(a) = Len(b)
    /\ \A i \in 1..Len(a) : UpperChar(a[i]) = UpperChar(b[i])

\* line is the word RIVER in any letter case, between any whitespace
IsRiverText(line) ==
    \E i, j \in 0..Len(line) :
      /\ i <= j
      /\ \A k \in 1..i : line[k] \in Whitespace
      /\ \A k \in (j + 1)..Len(line) : line[k] \in Whitespace
      /\ SameIgnoringCase(SubSeq(line, i + 1, j), RiverToken)

\* line without its line terminator and trailing blanks
Chomp(line) == RStrip(line)

\* C25: the only inbound line that triggers the dispatcher is the literal
\* token RIVER: RIVER starts a file read, and any other non-empty line is
\* only echoed and starts no file read and no playback.
C25_OnlyLiteralRiverTriggers ==
    [][IsLineStep =>
         IF Chomp(Head(inbox)) = RiverToken
           THEN IsFileRead
           ELSE /\ reads' = reads
                /\ played' = played
                /\ Chomp(Head(inbox)) # <<>> =>
                      echoed' = Append(echoed, Chomp(Head(inbox)))]_vars

\* C25 (amended): an inbound line triggers the dispatcher exactly when it is
\* the word RIVER in any letter case with any whitespace around it; every
\* other non-empty line is only echoed and starts no file read and no
\* playback.
C25_RiverInAnyCaseTriggers ==
    [][IsLineStep =>
         IF IsRiverText(Head(inbox))
           THEN IsFileRead /\ echoed' = Append(echoed, Chomp(Head(inbox)))
           ELSE /\ reads' = reads
                /\ played' = played
                /\ Chomp(Head(inbox)) # <<>> =>
                      echoed' = Append(echoed, Chomp(Head(inbox)))]_vars

\* OK was only echoed, and the lower-case river after a blank was echoed and
\* started a file read
C25_Witness ==
    /\ p_step = "line"
    /\ arrived = << <<"O", "K", "\n">>, <<" ", "r", "i", "v", "e", "r", "\n">> >>
    /\ inbox = <<>>
    /\ echoed = << <<"O", "K">>, <<" ", "r", "i", "v", "e", "r">> >>
    /\ Len(reads) = 1

\* the non-empty trimmed lines of the file, in file order; none when the
\* file is missing or cannot be read
TrimmedLines(file) ==
    IF file.exists /\ file.readable
      THEN SelectSeq([i \in 1..Len(file.lines) |-> Strip(file.lines[i])],
                     LAMBDA x : x # <<>>)
      ELSE <<>>

\* C27: the handoff file is read at the moment of each RIVER event and never
\* cached: the cards played are the non-empty trimmed lines of the file as
\* it is at that moment, in file order; a missing or unreadable file, or
\* one without cards, yields an empty list and no playback.
C27_FileReadAtEachRiver ==
    [][(IsLineStep /\ IsRiverText(Head(inbox))) =>
         /\ reads' = Append(reads, TrimmedLines(cards_file))
         /\ played' = IF TrimmedLines(cards_file) # <<>>
                         THEN Append(played, TrimmedLines(cards_file))
                         ELSE played]_vars

\* two RIVER lines were handled, the file changed in between, and each
\* playback got the cards of the file of its moment
C27_Witness ==
    /\ p_step = "line"
    /\ reads = << << <<"A", "S">> >>, << <<"7", "H">>, <<"A", "S">> >> >>
    /\ played = reads

\* the lines handled so far
Handled == SubSeq(arrived, 1, Len(arrived) - Len(inbox))

\* the lines of ls that are not empty, without their line terminators
NonEmptyLines(ls) ==
    SelectSeq([i \in 1..Len(ls) |-> Chomp(ls[i])], LAMBDA x : x # <<>>)

\* C28: the inbound poll drains everything buffered: when the poll step
\* completes without an I/O error no buffered line remains, the non-empty
\* lines were handled in arrival order, empty lines trigger nothing, and
\* the local input is read only after the poll of the iteration.
C28_PollDrainsInOrder ==
    /\ [](inbox = SubSeq(arrived, Len(arrived) - Len(inbox) + 1, Len(arrived)))
    /\ [](echoed = NonEmptyLines(Handled))
    /\ [](Len(reads) = Len(SelectSeq(Handled, IsRiverText)))
    /\ [][p_step' = "drained" => (inbox' = <<>> /\ echoed' = NonEmptyLines(arrived'))]_vars
    /\ [][(p_pc' = "input" /\ p_pc # "input") =>
             (p_pc = "poll" /\ (p_open' => p_step' = "drained"))]_vars
    /\ [][p_pc' = "top" => p_pc \in {"input", "top"}]_vars

\* an empty line, RIVER and OK arrived; the poll completed with nothing
\* buffered, RIVER and OK echoed in that order and one file read
C28_Witness ==
    /\ p_pc = "input"
    /\ p_step = "drained"
    /\ arrived = << <<"\r", "\n">>, RiverToken \o <<"\r", "\n">>, <<"O", "K", "\n">> >>
    /\ inbox = <<>>
    /\ echoed = <<RiverToken, <<"O", "K">> >>
    /\ Len(reads) = 1

----------------------------------------------------------------------------
(* The handoff from the camera-side tracker to the reader (SpecHandoff)    *)

\* C26: when RIVER is received, the card sequence handed to audio playback
\* is the current state of the camera-side tracker, its distinct cards at
\* that moment, read from the handoff file.
C26_PlayedIsTrackerState ==
    [][(IsLineStep /\ IsRiverText(Head(inbox))) =>
         LET current == reads'[Len(reads')] IN
           /\ {Join(current[i]) : i \in 1..Len(current)} = Range(unique_qr_codes)
           /\ unique_qr_codes # <<>> => played' = Append(played, current)]_vars

----------------------------------------------------------------------------
(* Audio cue playback (SpecAudio)                                          *)

\* the entries of a_log of the kind ev
EventsOf(ev) == SelectSeq(a_log, LAMBDA x : x.ev = ev)

\* the codes of the cards of card_order that have a cue file, in order
CodesWithCue ==
    SelectSeq([i \in 1..Len(card_order) |-> extract_card_code(card_order[i])],
              LAMBDA c : c \in cue_files)

\* play_cards_audio went through its loop and returned
LoopReturned == a_pc = "returned" /\ a_log # <<>> /\ a_log[Len(a_log)].ev = "report"

\* C29: with the cue directory present, play_cards_audio makes exactly one
\* play attempt for every card whose cue file exists, in sequence order,
\* whatever cues are missing and whatever playbacks fail; it raises nothing
\* and the reported count is the number of successful playbacks.
C29_OneAttemptPerCue ==
    /\ [](a_pc # "raised")
    /\ [][(a_pc = "call" /\ card_order # <<>> /\ audio_dir) => a_pc' = "loop"]_vars
    /\ [][a_pc = "loop" => a_pc' \in {"loop", "returned"}]_vars
    /\ [](LoopReturned =>
            LET plays == EventsOf("play") IN
              /\ [i \in 1..Len(plays) |-> plays[i].code] = CodesWithCue
              /\ Len(a_log) = Len(card_order) + 1
              /\ played_count = Len(SelectSeq(plays, LAMBDA x : x.ok))
              /\ a_log[Len(a_log)].n = played_count)

\* [AS, 7H] with only the cue of AS: AS played, 7H missing, one reported
C29_Witness ==
    /\ a_pc = "returned"
    /\ card_order = << <<"A", "S">>, <<"7", "H">> >>
    /\ cue_files = {<<"A", "S">>}
    /\ a_log = <<Event("play", <<"A", "S">>, TRUE, 0), Event("missing", <<"7", "H">>, FALSE, 0),
                 Event("report", <<>>, TRUE, 1)>>

\* C30: without the cue directory, play_cards_audio with a non-empty
\* sequence tries once to create the directory, which exists afterwards if
\* that succeeded, plays nothing and returns without raising, also when the
\* creation failed.
C30_AbsentDirectoryNoPlayback ==
    [][(a_pc = "call" /\ card_order # <<>> /\ ~audio_dir) =>
         /\ a_pc' = "returned"
         /\ Len(a_log') = 1
         /\ a_log'[1].ev = "makedirs"
         /\ audio_dir' = a_log'[1].ok
         /\ played_count' = 0
         /\ cue_files' = cue_files]_vars

\* the call returned after os.makedirs failed
C30_Witness ==
    /\ a_pc = "returned"
    /\ card_order = << <<"A", "S">>, <<"7", "H">> >>
    /\ ~audio_dir
    /\ a_log = <<Event("makedirs", <<>>, FALSE, 0)>>
    /\ played_count = 0

----------------------------------------------------------------------------
(* The milestone cards of the camera-side tracker (SpecCam)                *)

\* C34: the captured milestone cards never overlap: whenever the flags are
\* set, the three flop cards, the turn card and the river card are pairwise
\* distinct codes, all of them members of the distinct-card set.
C34_MilestonesDisjoint ==
    /\ flop_detected =>
          /\ Cardinality(Range(flop_cards)) = 3
          /\ Range(flop_cards) \subseteq Range(unique_qr_codes)
    /\ turn_detected =>
          /\ turn_card \in Range(unique_qr_codes)
          /\ flop_detected => turn_card \notin Range(flop_cards)
    /\ river_detected =>
          /\ river_card \in Range(unique_qr_codes)
          /\ flop_detected => river_card \notin Range(flop_cards)
          /\ turn_detected => river_card # turn_card


-----------------------------------------------------------------------------
(* The wire encoding as a function on the 52 cards (SpecEncode)            *)

\* C39: card_to_list is injective on the 52 cards: when the two cards of the
\* encoded hand differ, so do their (face, number, suit) triples, also when
\* one of them has rank 10, sent as number token 1.
C39_EncodingInjective ==
    e_pc = "encoded" =>
        /\ e_cards[1] # e_cards[2] => SubSeq(e_out, 1, 3) # SubSeq(e_out, 4, 6)
        /\ e_cards[1] = e_cards[2] => SubSeq(e_out, 1, 3) = SubSeq(e_out, 4, 6)

\* a ten and the ace of the same suit were encoded, to different triples
C39_Witness ==
    /\ e_pc = "encoded"
    /\ e_cards = <<"10S", "AS">>
    /\ SubSeq(e_out, 1, 3) = <<"N", "1", "S">>
    /\ SubSeq(e_out, 4, 6) = <<"A", "B", "S">>


-----------------------------------------------------------------------------
(* The window and the counter of the reader (SpecReader)                   *)

\* C36: after any sequence of add_card, store_hand and reset calls the window
\* holds min(card_count, 2) cards.
C36_WindowMatchesCounter ==
    Len(current_cards) = IF card_count < 2 THEN card_count ELSE 2

\* C37: the window never holds the same card twice, the pair of every send
\* attempt of add_card and store_hand is two distinct cards, and the HAND
\* frame such a call writes encodes two different (face, number, suit)
\* triples.
C37_WindowCardsDistinct ==
    /\ [](\A i, j \in 1..Len(current_cards) : i # j => current_cards[i] # current_cards[j])
    /\ [](\A k \in 1..Len(attempts) : Len(attempts[k]) = 2 /\ attempts[k][1] # attempts[k][2])
    /\ [][(last_op'[1] \in {"add_card", "store_hand"} /\ wire' # wire) =>
            LET m == wire'[Len(wire')]
            IN  /\ wire' = Append(wire, m)
                /\ m = HandMessage(attempts'[Len(attempts')])
                /\ SubSeq(m, 2, 4) # SubSeq(m, 5, 7)]_vars

\* a card of the full window was offered again and refused, after a HAND
\* frame of that window went out
C37_Witness ==
    /\ last_op[1] = "add_card"
    /\ last_ret = FALSE
    /\ Len(current_cards) = 2
    /\ last_op[2] = current_cards[2]
    /\ wire # <<>>
    /\ wire[Len(wire)] = HandMessage(current_cards)


-----------------------------------------------------------------------------
(* reader.reset() as the control loop calls it (SpecLoop)                  *)

\* C38: reset() always clears the window and the counter, with or without a
\* handle and whatever the write does.  With a handle it issues the write of
\* the reset frame exactly once: the frame goes out once when the write
\* returns and is not retried when it raises (an OSError or SerialException
\* drops the handle).  Without a handle nothing is written.
C38_ResetClearsLocalState ==
    [][IsLoopResetStep =>
         /\ current_cards' = <<>>
         /\ card_count' = 0
         /\ IF serial = NoneValue
              THEN /\ io' = <<"none">>
                   /\ wire' = wire
                   /\ serial' = NoneValue
              ELSE /\ io'[1] = "reset"
                   /\ io'[2] \in WriteOutcomes
                   /\ wire' = IF io'[2] = "ok" THEN Append(wire, ResetMessage) ELSE wire
                   /\ serial' = IF io'[2] = "OSError" THEN NoneValue ELSE serial]_vars

\* reset() cleared a hand that had been sent, and its own write failed
C38_Witness ==
    /\ last_op = <<"reset">>
    /\ io = <<"reset", "OSError">>
    /\ attempts # <<>>
    /\ wire # <<>>
    /\ wire[Len(wire)] # ResetMessage
    /\ current_cards = <<>>
    /\ card_count = 0
    /\ serial = NoneValue


-----------------------------------------------------------------------------
(* The pairs sent under add_card and reset alone (SpecAddReset)            *)

\* C35: with add_card and reset calls only, the counter is the number of
\* cards accepted since the last reset, a HAND write is attempted exactly in
\* the calls that accept the 2nd, 4th, 6th, ... of them, and the attempt made
\* at the 2k-th carries the accepted cards number 2k-1 and 2k, in that order.
C35_PairsConsecutive ==
    /\ [](card_count = Len(accepted))
    /\ [][\A c \in ReaderCards : IsAddStep(c) =>
            LET n == Len(accepted') IN
              IF last_ret' /\ n % 2 = 0
                THEN attempts' = Append(attempts, <<accepted'[n - 1], accepted'[n]>>)
                ELSE attempts' = attempts]_vars
    /\ [][(\A c \in ReaderCards : ~IsAddStep(c)) => attempts' = attempts]_vars

\* the fourth card accepted since the last reset made the second attempt
\* since then, with the third and the fourth card; the first pair was the
\* first and the second
C35_Witness ==
    /\ last_op[1] = "add_card"
    /\ last_ret = TRUE
    /\ Len(accepted) = 4
    /\ Len(attempts) >= 2
    /\ attempts[Len(attempts)] = <<accepted[3], accepted[4]>>
    /\ attempts[Len(attempts) - 1] = <<accepted[1], accepted[2]>>


-----------------------------------------------------------------------------
(* The frames of test mode (SpecTest)                                      *)

\* the step handles one random hand, in option 1, auto mode or option 2
IsTestHandStep == t_pc \in {"menu", "batch"} /\ n_calls' = n_calls + 1 /\ last_op'[1] # "reset"

\* C40: with an open link, the handling of one random hand writes exactly
\* one HAND frame, the frame of that hand, when no write raises.
C40_OneFramePerHand ==
    [][(IsTestHandStep /\ serial # NoneValue /\ is_open
          /\ \A i \in 1..Len(t_io') : t_io'[i] = "ok")
       => wire' = Append(wire, HandMessage(t_hand'))]_vars


-----------------------------------------------------------------------------
(* The tokens of the local input (SpecInput)                               *)

\* the step rejects the buffered token as no card
IsRejectStep == calls' # calls /\ calls'[Len(calls')][1] = "invalid"

\* the step is an iteration whose read timed out
IsTimeoutStep == in_pc = "loop" /\ in_char' = NoneValue

\* C31: an invalid buffered token is rejected on a timeout (2 or more
\* characters), on Enter (any non-empty buffer) and when the third character
\* arrives; the rejection leaves the window, the counter and the link as they
\* were and writes nothing, and it empties the buffer.
C31_InvalidTokenLeavesState ==
    /\ [][IsRejectStep =>
            /\ UNCHANGED <<current_cards, card_count, accepted>>
            /\ UNCHANGED <<serial, ser, is_open, wire, attempts>>
            /\ input_buffer' = <<>>]_vars
    /\ [][(IsTimeoutStep /\ Len(input_buffer) >= 2 /\ validate_card(input_buffer) = NoneValue)
          => IsRejectStep]_vars
    /\ [][(in_pc = "loop" /\ in_char' \in {"\r", "\n"} /\ typed' # typed
             /\ input_buffer # <<>> /\ validate_card(input_buffer) = NoneValue)
          => IsRejectStep]_vars
    /\ [][(in_pc = "loop" /\ typed' # typed /\ IsPrintable(in_char')
             /\ Len(input_buffer) = 2
             /\ validate_card(Append(input_buffer, in_char')) = NoneValue)
          => IsRejectStep]_vars

\* the token '10' was rejected on a timeout, with a card in the window and
\* the port open
C31_Witness ==
    /\ calls # <<>>
    /\ calls[Len(calls)] = <<"invalid", "10">>
    /\ in_char = NoneValue
    /\ input_buffer = <<>>
    /\ current_cards = <<"KH">>
    /\ card_count = 1
    /\ serial = "port"
    /\ is_open
    /\ wire = <<>>

\* C32 as stated: a read timeout with a non-empty buffer processes the
\* buffer and leaves it empty, unless the token ends the loop.
C32_TimeoutEmptiesBuffer ==
    [][(IsTimeoutStep /\ input_buffer # <<>>) =>
          \/ input_buffer' = <<>> /\ calls' # calls
          \/ in_pc' = "exit"]_vars

\* C32, amended: a read timeout processes a buffer that holds a complete
\* token: the single letter R or S is run as a command and a buffer of 2 or
\* more characters is handled as a card candidate, both leaving the buffer
\* empty, and the single letter Q ends the loop.  Any other single character
\* stays in the buffer, where the next characters join it.
C32_TimeoutFlushesCompleteTokens ==
    [][(IsTimeoutStep /\ input_buffer # <<>>) =>
          LET cmd == Join(Upper(input_buffer)) IN
            IF Len(input_buffer) >= 2
              THEN /\ input_buffer' = <<>>
                   /\ Len(calls') = Len(calls) + 1
                   /\ calls'[Len(calls')][1] \in {"add_card", "invalid"}
                   /\ in_pc' = "loop"
            ELSE IF cmd \in {"R", "S"}
              THEN /\ input_buffer' = <<>>
                   /\ calls' = Append(calls, <<IF cmd = "R" THEN "reset" ELSE "status">>)
                   /\ in_pc' = "loop"
            ELSE IF cmd = "Q"
              THEN /\ in_pc' = "exit"
                   /\ calls' = Append(calls, <<"quit">>)
            ELSE /\ input_buffer' = input_buffer
                 /\ calls' = calls
                 /\ in_pc' = "loop"]_vars

\* the read timed out after the single character 'A', which stayed in the
\* buffer
C32_Witness ==
    /\ in_pc = "loop"
    /\ typed = <<"A">>
    /\ in_char = NoneValue
    /\ input_buffer = <<"A">>
    /\ calls = <<>>

\* C33: from an empty buffer, while the characters delivered are the first
\* characters of a card code, in either case, no quit, reset or status
\* command has run and the loop is running, and once they are the whole card
\* code exactly one add_card call was made, with that card.
C33_CardTypedIsOneAddCard ==
    \A card \in VALID_CARDS :
      LET cc == CardChars(card) IN
        /\ (typed # <<>> /\ Len(typed) <= Len(cc) /\ Upper(typed) = SubSeq(cc, 1, Len(typed)))
             => /\ \A i \in 1..Len(calls) : calls[i][1] \notin {"quit", "reset", "status"}
                /\ in_pc = "loop"
        /\ Upper(typed) = cc
             => SelectSeq(calls, LAMBDA x : x[1] = "add_card") = << <<"add_card", card>> >>

====
